---- MODULE Spec2Model ----
(***************************************************************************)
(* Model of the EPIG photo segmentation engine.                            *)
(*                                                                         *)
(* Spec        the hard-reset segmentation state machine of                *)
(*             scripts/room_segments_v2.py (main): the loop over the       *)
(*             ordered page stream, the final close, the post-pass.        *)
(* SpecMarker  the marker validity predicate is_valid_marker applied to    *)
(*             bounded strings.                                            *)
(*                                                                         *)
(* Encoding of Python / SQL values:                                        *)
(*   None / NULL      the empty tuple <<>>                                 *)
(*   a present value  the one-element tuple <<v>>                          *)
(*   a str            a tuple of one-character strings, "CC" = <<"C","C">> *)
(***************************************************************************)
EXTENDS Integers, Sequences, FiniteSets, Bags, TLC

VARIABLES
    min_run,        \* args.min_run
    keep_unmarked,  \* args.keep_unmarked
    rows,           \* the rows of the ordered query consumed by the loop so far
    segments,       \* closed segments, in closing order
    seg_id,         \* last segment id handed out
    cur,            \* the open segment: None or Some(segment)
    prev_loc,       \* None before the first row, then Some(location)
    prev_shoot,     \* shoot index of the current context (a nullable integer)
    kept,           \* segments kept by the post-pass (written to the table)
    pc,             \* "loop" | "closed" | "done", or the name of a one-step specification
    mk_in,          \* SpecMarker: the argument of is_valid_marker
    mk_out,         \* SpecMarker: None, or Some(result)
    sl_in,          \* SpecSlate: the arguments of detect_slate
    sl_out,         \* SpecSlate: None, or Some(result of detect_slate)
    rm_in,          \* SpecRoomMarker: the arguments of detect_room_marker
    rm_out,         \* SpecRoomMarker: None, or Some(result of detect_room_marker)
    db,             \* SpecIngest: the five tables written by ingestion
    ingested,       \* SpecIngest: per file_id, the inputs of its last ingestion
    tables,         \* SpecRebuild: the output tables of the two segmentation scripts
    ran,            \* SpecRebuild: how many times each script has run
    graph,          \* SpecGraph: the inputs and the progress of build_graph
    run             \* SpecRun: the inputs and the outcome of one ingestion run

auxVars == <<sl_in, sl_out, rm_in, rm_out, db, ingested, tables, ran, graph, run>>

vars == <<min_run, keep_unmarked, rows, segments, seg_id, cur, prev_loc,
          prev_shoot, kept, pc, mk_in, mk_out, auxVars>>

segVars == <<min_run, keep_unmarked, rows, segments, seg_id, cur, prev_loc,
             prev_shoot, kept>>

----------------------------------------------------------------------------
\* Bounds of the model.

\* Longest page stream explored.
MaxPages == 3

\* Longest string given to is_valid_marker.
MaxLen == 3

\* Longest uniform stream (SpecConf), long enough for every confidence tier.
MaxFiles == 21

\* Longest OCR text given to detect_slate.
MaxText == 3

\* Values of --min_run explored.
MinRuns == {1, 2}

\* The variables of the other specifications, at rest.
AuxIdle ==
    /\ sl_in = <<>> /\ sl_out = <<>>
    /\ rm_in = <<>> /\ rm_out = <<>>
    /\ db = <<>> /\ ingested = <<>>
    /\ tables = <<>> /\ ran = {}
    /\ graph = <<>> /\ run = <<>>

----------------------------------------------------------------------------
\* Python values.

None == <<>>

Some(v) == <<v>>

\* bool(x) of a nullable BOOLEAN column: None and False are falsy.
Truthy(b) == b = Some(TRUE)

\* Characters used to build strings: upper and lower case letters, a digit,
\* a punctuation sign.
Chars == {"A", "B", "c", "7", "-"}

AlphaChars == {"A", "B", "C", "c"}

\* str.isalpha(): at least one character and all characters alphabetic.
isalpha(s) == Len(s) >= 1 /\ \A i \in 1..Len(s) : s[i] \in AlphaChars

UNMARKED == <<"U", "N", "M", "A", "R", "K", "E", "D">>

UNKNOWN == "UNKNOWN"

----------------------------------------------------------------------------
\* is_valid_marker(m): m is None or Some(str).

\* Mutant: the two characters are not compared.
is_valid_marker_m1(m) ==
    IF m = None THEN FALSE
    ELSE IF Len(m[1]) = 1 /\ isalpha(m[1]) THEN TRUE
    ELSE IF Len(m[1]) = 2 /\ isalpha(m[1]) THEN TRUE
    ELSE FALSE

is_valid_marker(m) ==
    IF m = None THEN FALSE
    ELSE IF Len(m[1]) = 1 /\ isalpha(m[1]) THEN TRUE
    ELSE IF Len(m[1]) = 2 /\ m[1][1] = m[1][2] /\ isalpha(m[1]) THEN TRUE
    ELSE FALSE

\* Mutant: the second threshold is off by one.
confidence_for_m11(n) ==
    IF n >= 20 THEN 92
    ELSE IF n > 8 THEN 90
    ELSE IF n >= 3 THEN 80
    ELSE 60

\* confidence_for(n), in hundredths.
confidence_for(n) ==
    IF n >= 20 THEN 92
    ELSE IF n >= 8 THEN 90
    ELSE IF n >= 3 THEN 80
    ELSE 60

----------------------------------------------------------------------------
\* The fold accumulator of the loop: the closure variables cur, segments,
\* seg_id (nonlocal in close_cur and start_segment) and prev_loc, prev_shoot.

Acc == [cur |-> cur, segments |-> segments, seg_id |-> seg_id,
        prev_loc |-> prev_loc, prev_shoot |-> prev_shoot]

\* Mutant: the closed segment stays open.
close_cur_m3(a, reason) ==
    IF a.cur = None THEN a
    ELSE [a EXCEPT !.segments = Append(@, [a.cur[1] EXCEPT !.reset_reason = reason])]

close_cur(a, reason) ==
    IF a.cur = None THEN a
    ELSE [a EXCEPT !.segments = Append(@, [a.cur[1] EXCEPT !.reset_reason = reason]),
                   !.cur = None]

start_segment(a, loc, shoot, marker_text, efta_id, file_id) ==
    [a EXCEPT !.seg_id = a.seg_id + 1,
              !.cur = Some([segment_id     |-> a.seg_id + 1,
                            location_label |-> loc,
                            shoot_index    |-> shoot,
                            marker_text    |-> marker_text,
                            start_efta_id  |-> efta_id,
                            start_file_id  |-> file_id,
                            end_efta_id    |-> efta_id,
                            end_file_id    |-> file_id,
                            n_files        |-> 1,
                            confidence     |-> 0,
                            reset_reason   |-> ""])]

\* Mutant: the file count is not incremented.
extend_cur_m9(a, efta_id, file_id) ==
    [a EXCEPT !.cur = Some([a.cur[1] EXCEPT !.end_efta_id = efta_id,
                                            !.end_file_id = file_id])]

\* Mutant: the end of the segment is not moved to the page.
extend_cur_m29(a, efta_id, file_id) ==
    [a EXCEPT !.cur = Some([a.cur[1] EXCEPT !.n_files = @ + 1])]

\* cur["end_efta_id"] = efta_id; cur["end_file_id"] = file_id; cur["n_files"] += 1
extend_cur(a, efta_id, file_id) ==
    [a EXCEPT !.cur = Some([a.cur[1] EXCEPT !.end_efta_id = efta_id,
                                            !.end_file_id = file_id,
                                            !.n_files = @ + 1])]

\* loc = loc if loc is not None else "UNKNOWN"
norm_loc(r) == IF r.location_label = None THEN UNKNOWN ELSE r.location_label[1]

\* Mutant: a shoot change updates the context without closing the segment.
hard_resets_m4(a, loc, shoot) ==
    IF a.prev_loc = None
    THEN [a EXCEPT !.prev_loc = Some(loc), !.prev_shoot = shoot]
    ELSE IF Some(loc) # a.prev_loc
    THEN [close_cur(a, "location_change") EXCEPT !.prev_loc = Some(loc),
                                                 !.prev_shoot = shoot]
    ELSE IF shoot # a.prev_shoot
    THEN [a EXCEPT !.prev_loc = Some(loc), !.prev_shoot = shoot]
    ELSE a

\* The hard resets at the head of the loop body.
hard_resets(a, loc, shoot) ==
    IF a.prev_loc = None
    THEN [a EXCEPT !.prev_loc = Some(loc), !.prev_shoot = shoot]
    ELSE IF Some(loc) # a.prev_loc
    THEN [close_cur(a, "location_change") EXCEPT !.prev_loc = Some(loc),
                                                 !.prev_shoot = shoot]
    ELSE IF shoot # a.prev_shoot
    THEN [close_cur(a, "shoot_change") EXCEPT !.prev_loc = Some(loc),
                                              !.prev_shoot = shoot]
    ELSE a

\* Mutant: the marker text is not validated.
new_marker_of_m2(r) ==
    IF Truthy(r.has_marker) THEN r.marker_text ELSE None

\* new_marker = marker if has_marker and is_valid_marker(marker) else None
new_marker_of(r) ==
    IF Truthy(r.has_marker) /\ is_valid_marker(r.marker_text)
    THEN r.marker_text ELSE None

\* Mutant: a valid marker always splits the open segment.
marker_rules_m6(a, r, loc, shoot, keep) ==
    LET new_marker == new_marker_of(r) IN
    IF new_marker # None
    THEN IF a.cur = None
         THEN start_segment(a, loc, shoot, new_marker[1], r.efta_id, r.file_id)
         ELSE start_segment(close_cur(a, "marker_change"), loc, shoot,
                            new_marker[1], r.efta_id, r.file_id)
    ELSE IF a.cur # None
         THEN extend_cur(a, r.efta_id, r.file_id)
         ELSE IF keep
         THEN start_segment(a, loc, shoot, UNMARKED, r.efta_id, r.file_id)
         ELSE a

\* Mutant: on a marker change the old segment takes the current page too.
marker_rules_m7(a, r, loc, shoot, keep) ==
    LET new_marker == new_marker_of(r) IN
    IF new_marker # None
    THEN IF a.cur = None
         THEN start_segment(a, loc, shoot, new_marker[1], r.efta_id, r.file_id)
         ELSE IF new_marker[1] # a.cur[1].marker_text
         THEN start_segment(close_cur(extend_cur(a, r.efta_id, r.file_id), "marker_change"),
                            loc, shoot, new_marker[1], r.efta_id, r.file_id)
         ELSE extend_cur(a, r.efta_id, r.file_id)
    ELSE IF a.cur # None
         THEN extend_cur(a, r.efta_id, r.file_id)
         ELSE IF keep
         THEN start_segment(a, loc, shoot, UNMARKED, r.efta_id, r.file_id)
         ELSE a

\* Mutant: an UNMARKED segment is opened whatever keep_unmarked says.
marker_rules_m27(a, r, loc, shoot, keep) ==
    LET new_marker == new_marker_of(r) IN
    IF new_marker # None
    THEN IF a.cur = None
         THEN start_segment(a, loc, shoot, new_marker[1], r.efta_id, r.file_id)
         ELSE IF new_marker[1] # a.cur[1].marker_text
         THEN start_segment(close_cur(a, "marker_change"), loc, shoot,
                            new_marker[1], r.efta_id, r.file_id)
         ELSE extend_cur(a, r.efta_id, r.file_id)
    ELSE IF a.cur # None
         THEN extend_cur(a, r.efta_id, r.file_id)
         ELSE start_segment(a, loc, shoot, UNMARKED, r.efta_id, r.file_id)

\* The marker rules at the tail of the loop body (after the slate check).
marker_rules(a, r, loc, shoot, keep) ==
    LET new_marker == new_marker_of(r) IN
    IF new_marker # None
    THEN IF a.cur = None
         THEN start_segment(a, loc, shoot, new_marker[1], r.efta_id, r.file_id)
         ELSE IF new_marker[1] # a.cur[1].marker_text
         THEN start_segment(close_cur(a, "marker_change"), loc, shoot,
                            new_marker[1], r.efta_id, r.file_id)
         ELSE extend_cur(a, r.efta_id, r.file_id)
    ELSE IF a.cur # None
         THEN extend_cur(a, r.efta_id, r.file_id)
         ELSE IF keep
         THEN start_segment(a, loc, shoot, UNMARKED, r.efta_id, r.file_id)
         ELSE a

\* Mutant: the slate page is counted into the segment it closes.
loop_body_m5(a, r, keep) ==
    LET loc   == norm_loc(r)
        shoot == r.shoot_index
        b     == hard_resets(a, loc, shoot)
    IN  IF r.is_slate
        THEN IF b.cur = None THEN b
             ELSE close_cur(extend_cur(b, r.efta_id, r.file_id), "slate")
        ELSE marker_rules(b, r, loc, shoot, keep)

\* Mutant: a page that triggers a hard reset is skipped.
loop_body_m8(a, r, keep) ==
    LET loc   == norm_loc(r)
        shoot == r.shoot_index
        b     == hard_resets(a, loc, shoot)
    IN  IF Len(b.segments) # Len(a.segments) THEN b
        ELSE IF r.is_slate
        THEN close_cur(b, "slate")
        ELSE marker_rules(b, r, loc, shoot, keep)

\* One iteration of the loop over rows.
loop_body(a, r, keep) ==
    LET loc   == norm_loc(r)
        shoot == r.shoot_index
        b     == hard_resets(a, loc, shoot)
    IN  IF r.is_slate
        THEN close_cur(b, "slate")
        ELSE marker_rules(b, r, loc, shoot, keep)

\* s["confidence"] = confidence_for(s["n_files"]) for every closed segment.
with_confidence(segs) ==
    [i \in 1..Len(segs) |-> [segs[i] EXCEPT !.confidence = confidence_for(segs[i].n_files)]]

\* Mutant: a segment of exactly min_run files is dropped.
keeps_m12(s, minrun, keep) ==
    IF s.marker_text = UNMARKED /\ ~keep THEN FALSE
    ELSE s.n_files > minrun

\* The two filters of the post-pass: the UNMARKED one (continue), then min_run.
keeps(s, minrun, keep) ==
    IF s.marker_text = UNMARKED /\ ~keep THEN FALSE
    ELSE s.n_files >= minrun

\* The post-pass: confidence, then the UNMARKED and min_run filters.
RECURSIVE post_pass(_, _, _)
post_pass(segs, minrun, keep) ==
    IF segs = <<>> THEN <<>>
    ELSE LET s == [Head(segs) EXCEPT !.confidence = confidence_for(Head(segs).n_files)]
             rest == post_pass(Tail(segs), minrun, keep)
         IN  IF keeps(s, minrun, keep) THEN <<s>> \o rest
             ELSE rest

\* The loop over a whole list of rows. seg_id is never negative: the test on
\* it only has the accumulator of a row computed before the next row is taken.
RECURSIVE run_rows(_, _, _)
run_rows(a, rs, keep) ==
    IF rs = <<>> \/ a.seg_id < 0 THEN a
    ELSE run_rows(loop_body(a, Head(rs), keep), Tail(rs), keep)

\* The closure variables before the loop.
EmptyAcc == [cur |-> None, segments |-> <<>>, seg_id |-> 0,
             prev_loc |-> None, prev_shoot |-> None]

----------------------------------------------------------------------------
\* Input rows: the columns of the ordered query.

\* (location_label, shoot_index) of the joined assignments row.
\* No assignment row (NULL, NULL); a seeded location whose shoot index is
\* null; a seeded location and shoot.
Assignments == { <<None, None>>, <<Some("L1"), None>>, <<Some("L1"), Some(1)>> }

\* (has_marker, marker_text) of the joined room_markers row: no row, a single
\* letter, a doubled letter, two different letters, a letter with the flag off.
MarkerObs == { <<None, None>>,
               <<Some(TRUE), Some(<<"B">>)>>,
               <<Some(TRUE), Some(<<"C", "C">>)>>,
               <<Some(TRUE), Some(<<"A", "B">>)>>,
               <<Some(FALSE), Some(<<"B">>)>> }

\* file_id = f"EFTA{efta_id:08d}"
file_id_of(efta_id) == <<"EFTA", efta_id>>

Row(efta_id, asg, slate, mo) ==
    [efta_id        |-> efta_id,
     file_id        |-> file_id_of(efta_id),
     location_label |-> asg[1],
     shoot_index    |-> asg[2],
     is_slate       |-> slate,
     has_marker     |-> mo[1],
     marker_text    |-> mo[2]]

\* f.efta_id of the k-th row of the ordered query: strictly ascending, with
\* gaps where files are missing (1, 2, 4, 5, 6, 8, ...).
efta_id_at(k) == k + (k \div 3)

----------------------------------------------------------------------------
\* Spec: the segmentation run.

Init ==
    /\ min_run \in MinRuns
    /\ keep_unmarked \in BOOLEAN
    /\ rows = <<>>
    /\ segments = <<>>
    /\ seg_id = 0
    /\ cur = None
    /\ prev_loc = None
    /\ prev_shoot = None
    /\ kept = <<>>
    /\ pc = "loop"
    /\ mk_in = None
    /\ mk_out = None
    /\ AuxIdle

\* The loop takes the next row of the stream. The IDs ascend strictly
\* (ORDER BY f.efta_id ASC over distinct IDs). The marker columns of a slate
\* row are never read (the loop continues before new_marker is computed), so
\* slate rows are drawn with no marker row.
ProcessRow ==
    /\ pc = "loop"
    /\ Len(rows) < MaxPages
    /\ \E asg \in Assignments, slate \in BOOLEAN, mo \in MarkerObs :
          LET r == Row(efta_id_at(Len(rows) + 1), asg, slate, mo)
              a == loop_body(Acc, r, keep_unmarked)
          IN  /\ slate => mo = <<None, None>>
              /\ rows' = Append(rows, r)
              /\ cur' = a.cur
              /\ segments' = a.segments
              /\ seg_id' = a.seg_id
              /\ prev_loc' = a.prev_loc
              /\ prev_shoot' = a.prev_shoot
    /\ UNCHANGED <<min_run, keep_unmarked, kept, pc, mk_in, mk_out, auxVars>>

\* Mutant: the segment open at the end of the stream is not flushed.
CloseEof_m10 ==
    /\ pc = "loop"
    /\ pc' = "closed"
    /\ UNCHANGED <<min_run, keep_unmarked, rows, segments, seg_id, cur,
                   prev_loc, prev_shoot, kept, mk_in, mk_out, auxVars>>

\* End of the stream: close_cur("eof").
CloseEof ==
    /\ pc = "loop"
    /\ LET a == close_cur(Acc, "eof")
       IN  /\ cur' = a.cur
           /\ segments' = a.segments
    /\ pc' = "closed"
    /\ UNCHANGED <<min_run, keep_unmarked, rows, seg_id, prev_loc, prev_shoot,
                   kept, mk_in, mk_out, auxVars>>

\* The post-pass and the insertion of the kept segments.
PostPass ==
    /\ pc = "closed"
    /\ kept' = post_pass(segments, min_run, keep_unmarked)
    /\ segments' = with_confidence(segments)
    /\ pc' = "done"
    /\ UNCHANGED <<min_run, keep_unmarked, rows, seg_id, cur,
                   prev_loc, prev_shoot, mk_in, mk_out, auxVars>>

Next == ProcessRow \/ CloseEof \/ PostPass

Spec == Init /\ [][Next]_vars

----------------------------------------------------------------------------
\* SpecMarker: is_valid_marker on bounded strings.

RECURSIVE StringsUpTo(_)
StringsUpTo(n) ==
    IF n = 0 THEN { <<>> }
    ELSE LET shorter == StringsUpTo(n - 1)
         IN  shorter \cup { Append(s, c) : s \in shorter, c \in Chars }

InitMarker ==
    /\ min_run = 2
    /\ keep_unmarked = FALSE
    /\ rows = <<>>
    /\ segments = <<>>
    /\ seg_id = 0
    /\ cur = None
    /\ prev_loc = None
    /\ prev_shoot = None
    /\ kept = <<>>
    /\ pc = "marker"
    /\ mk_in \in {None} \cup { Some(s) : s \in StringsUpTo(MaxLen) }
    /\ mk_out = None
    /\ AuxIdle

CheckMarker ==
    /\ pc = "marker"
    /\ mk_out = None
    /\ mk_out' = Some(is_valid_marker(mk_in))
    /\ UNCHANGED <<segVars, pc, mk_in, auxVars>>

NextMarker == CheckMarker

SpecMarker == InitMarker /\ [][NextMarker]_vars

----------------------------------------------------------------------------
\* SpecConf: the segmentation run resumed after a long uniform stream, so that
\* segments of every confidence tier reach the post-pass. The loop takes at
\* most one more row after the uniform stream (Spec explores the short streams
\* row by row).

\* n rows of one location and shoot that carry the same marker observation.
UniformRows(n, mo) ==
    [k \in 1..n |-> Row(efta_id_at(k), <<Some("L1"), Some(1)>>, FALSE, mo)]

ConfMinRuns == MinRuns \cup {8}

InitConf ==
    /\ min_run \in ConfMinRuns
    /\ keep_unmarked \in BOOLEAN
    /\ \E n \in (MaxPages - 1)..MaxFiles, mo \in MarkerObs :
          LET rs == UniformRows(n, mo)
              a  == run_rows(EmptyAcc, rs, keep_unmarked)
          IN  /\ rows = rs
              /\ cur = a.cur
              /\ segments = a.segments
              /\ seg_id = a.seg_id
              /\ prev_loc = a.prev_loc
              /\ prev_shoot = a.prev_shoot
    /\ kept = <<>>
    /\ pc = "loop"
    /\ mk_in = None
    /\ mk_out = None
    /\ AuxIdle

SpecConf == InitConf /\ [][Next]_vars

----------------------------------------------------------------------------
\* Text helpers of ingest_dataset.py.

\* str.upper(), character by character.
LowerLetters ==
    { "a", "b", "c", "d", "e", "f", "g", "h", "i", "j", "k", "l", "m",
      "n", "o", "p", "q", "r", "s", "t", "u", "v", "w", "x", "y", "z" }

upper_char(c) ==
    IF c \notin LowerLetters THEN c
    ELSE CASE c = "a" -> "A" [] c = "b" -> "B" [] c = "c" -> "C" [] c = "d" -> "D"
           [] c = "e" -> "E" [] c = "f" -> "F" [] c = "g" -> "G" [] c = "h" -> "H"
           [] c = "i" -> "I" [] c = "j" -> "J" [] c = "k" -> "K" [] c = "l" -> "L"
           [] c = "m" -> "M" [] c = "n" -> "N" [] c = "o" -> "O" [] c = "p" -> "P"
           [] c = "q" -> "Q" [] c = "r" -> "R" [] c = "s" -> "S" [] c = "t" -> "T"
           [] c = "u" -> "U" [] c = "v" -> "V" [] c = "w" -> "W" [] c = "x" -> "X"
           [] c = "y" -> "Y" [] c = "z" -> "Z"

upper(s) == [i \in 1..Len(s) |-> upper_char(s[i])]

\* The character classes [A-Z] and [0-9] of the regular expressions.
UpperLetters ==
    { "A", "B", "C", "D", "E", "F", "G", "H", "I", "J", "K", "L", "M",
      "N", "O", "P", "Q", "R", "S", "T", "U", "V", "W", "X", "Y", "Z" }

Digits == {"0", "1", "2", "3", "4", "5", "6", "7", "8", "9"}

is_upper_alnum(c) == c \in UpperLetters \cup Digits

is_upper_letter(c) == c \in UpperLetters

\* re.sub(r"[^A-Z0-9]", "", s)
strip_non_alnum(s) == SelectSeq(s, is_upper_alnum)

\* sub in s (substring test; the empty string is in every string).
contains(sub, s) ==
    \E i \in 0..(Len(s) - Len(sub)) : SubSeq(s, i + 1, i + Len(sub)) = sub

\* All strings of at most n characters over the characters cs.
RECURSIVE StringsOver(_, _)
StringsOver(cs, n) ==
    IF n = 0 THEN { <<>> }
    ELSE LET shorter == StringsOver(cs, n - 1)
         IN  shorter \cup { Append(s, c) : s \in shorter, c \in cs }

----------------------------------------------------------------------------
\* detect_slate. The OCR read-out txt is the value returned by ocr_text.

\* Mutant: only the raw text is searched.
keyword_matches_m16(k, up, compact) == contains(upper(k), up)

\* (k_raw.upper() in up) or (k_cmp and k_cmp in compact)
keyword_matches(k, up, compact) ==
    LET k_cmp == strip_non_alnum(upper(k))
    IN  contains(upper(k), up) \/ (k_cmp # <<>> /\ contains(k_cmp, compact))

\* Mutant: an empty strong list counts as all matched.
strong_rule_m15(strong_keywords, up, compact) ==
    \A i \in 1..Len(strong_keywords) : keyword_matches(strong_keywords[i], up, compact)

\* strong = all(...) if strong_keywords else False
strong_rule(strong_keywords, up, compact) ==
    IF strong_keywords # <<>>
    THEN \A i \in 1..Len(strong_keywords) :
            keyword_matches(strong_keywords[i], up, compact)
    ELSE FALSE

detect_slate(txt, keywords, min_keywords, strong_keywords) ==
    LET up      == upper(txt)
        compact == strip_non_alnum(up)
        matched(k) == keyword_matches(k, up, compact)
        found   == SelectSeq(keywords, matched)
        strong  == strong_rule(strong_keywords, up, compact)
    IN  [is_slate |-> (Len(found) >= min_keywords) \/ strong,
         txt      |-> txt,
         found    |-> found]

----------------------------------------------------------------------------
\* SpecSlate: detect_slate on bounded OCR texts and keyword lists.

SlateChars == {"a", "B", " ", "-"}

\* Keywords: two words separated by a space (as "CASE ID"), a lower-case
\* word, a keyword without any letter or digit.
KwAB == <<"A", " ", "B">>

KwLower == <<"b">>

KwDash == <<"-">>

KeywordLists == { <<>>, <<KwAB>>, <<KwAB, KwLower>>, <<KwDash>>, <<KwAB, KwDash>> }

MinKeywords == 0..3

InitSlate ==
    /\ min_run = 2
    /\ keep_unmarked = FALSE
    /\ rows = <<>>
    /\ segments = <<>>
    /\ seg_id = 0
    /\ cur = None
    /\ prev_loc = None
    /\ prev_shoot = None
    /\ kept = <<>>
    /\ pc = "slate"
    /\ mk_in = None
    /\ mk_out = None
    /\ sl_in \in [txt : StringsOver(SlateChars, MaxText),
                  keywords : KeywordLists,
                  min_keywords : MinKeywords,
                  strong_keywords : KeywordLists]
    /\ sl_out = None
    /\ rm_in = <<>> /\ rm_out = <<>>
    /\ db = <<>> /\ ingested = <<>>
    /\ tables = <<>> /\ ran = {}
    /\ graph = <<>> /\ run = <<>>

DetectSlate ==
    /\ pc = "slate"
    /\ sl_out = None
    /\ sl_out' = Some(detect_slate(sl_in.txt, sl_in.keywords, sl_in.min_keywords,
                                   sl_in.strong_keywords))
    /\ UNCHANGED <<segVars, pc, mk_in, mk_out, sl_in, rm_in, rm_out, db, ingested,
                   tables, ran, graph, run>>

NextSlate == DetectSlate

SpecSlate == InitSlate /\ [][NextSlate]_vars

----------------------------------------------------------------------------
\* detect_room_marker. The OCR engine is a function from (region, psm) to the
\* text it reads there: ocr_text(img, roi = r, psm = p) is reads[<<r, p>>].

\* clean_letters: re.sub(r"[^A-Z]", "", s.upper()).strip()
clean_letters(s) == SelectSeq(upper(s), is_upper_letter)

\* The configured validity patterns (ocr.room_marker.regex): the default
\* ^[A-Z]{1,2}$ and a pattern for one letter or the same letter twice.
DefaultPattern == "^[A-Z]{1,2}$"

DoubledPattern == "^([A-Z])\\1?$"

RoomPatterns == {DefaultPattern, DoubledPattern}

\* room_re.match(s) for the compiled pattern room_re.
room_re_match_in(room_re, s) ==
    /\ Len(s) \in {1, 2}
    /\ \A i \in 1..Len(s) : is_upper_letter(s[i])
    /\ (room_re = DoubledPattern /\ Len(s) = 2) => s[1] = s[2]

\* room_re.match with the default pattern ^[A-Z]{1,2}$ (main, ocr.room_marker.regex).
room_re_match(s) ==
    /\ Len(s) \in {1, 2}
    /\ \A i \in 1..Len(s) : is_upper_letter(s[i])

\* re.findall(r"[A-Z]{1,2}", s): leftmost, greedy, non-overlapping.
RECURSIVE findall_letters(_)
findall_letters(s) ==
    IF s = <<>> THEN <<>>
    ELSE IF ~is_upper_letter(s[1]) THEN findall_letters(Tail(s))
    ELSE IF Len(s) >= 2 /\ is_upper_letter(s[2])
         THEN <<SubSeq(s, 1, 2)>> \o findall_letters(SubSeq(s, 3, Len(s)))
         ELSE <<SubSeq(s, 1, 1)>> \o findall_letters(Tail(s))

\* best_candidate_from_text: None, or Some(candidate).
best_candidate_from_text(txt) ==
    LET cand   == clean_letters(txt)
        tokens == SelectSeq(findall_letters(upper(txt)), room_re_match)
    IN  IF room_re_match(cand) THEN Some(cand)
        ELSE IF tokens # <<>> THEN Some(tokens[1])
        ELSE None

\* best_candidate_from_text inside detect_room_marker called with room_re.
best_candidate_in(room_re, txt) ==
    LET cand     == clean_letters(txt)
        valid(t) == room_re_match_in(room_re, t)
        tokens   == SelectSeq(findall_letters(upper(txt)), valid)
    IN  IF valid(cand) THEN Some(cand)
        ELSE IF tokens # <<>> THEN Some(tokens[1])
        ELSE None

\* bool(x) of an Optional[str]: None and "" are falsy.
truthy_str(c) == c # None /\ c[1] # <<>>

max0(n) == IF n > 0 THEN n ELSE 0

\* score = base + (2 if len(cand) == 2 else 1) + max(0, 5 - len(clean_letters(txt)))
\* where base is 10 for the psm 10 read and 8 for the psm 8 read.
marker_score(base, cand, txt) ==
    base + (IF Len(cand) = 2 THEN 2 ELSE 1) + max0(5 - Len(clean_letters(txt)))

\* Mutant: a later candidate of equal score replaces the best one.
better_m17(score, best) == best = None \/ score >= best[1].score

\* if best is None or score > best[0]
better(score, best) == best = None \/ score > best[1].score

roi_list == <<"left_band", "right_band", "top_band", "bottom_band", "center_small", "full">>

\* The psm values tried in each region of the multi-region loop, in order.
psm_list == <<10, 8>>

\* One read of the multi-region loop: region r, psm p, best so far. The base
\* of the score is 10 in the psm 10 read and 8 in the psm 8 read, i.e. p.
try_read(reads, r, p, best) ==
    LET txt  == reads[<<r, p>>]
        cand == best_candidate_from_text(txt)
    IN  IF truthy_str(cand)
        THEN LET score == marker_score(p, cand[1], txt)
             IN  IF better(score, best)
                 THEN Some([score |-> score, marker |-> cand[1], txt |-> txt,
                            roi |-> r, psm |-> p])
                 ELSE best
        ELSE best

\* for r in roi_list: the psm 10 read, then the psm 8 read.
RECURSIVE scan_rois(_, _, _)
scan_rois(reads, i, best) ==
    IF i > Len(roi_list) THEN best
    ELSE scan_rois(reads, i + 1,
                   try_read(reads, roi_list[i], psm_list[2],
                            try_read(reads, roi_list[i], psm_list[1], best)))

\* str(p) for the psm values in use.
psm_str(p) == IF p = 10 THEN "10" ELSE "8"

\* f"[roi={r} psm={p}] {txt}": the text is the concatenation of the elements.
provenance(r, p, txt) == <<"[roi=", r, " psm=", psm_str(p), "] ">> \o txt

detect_room_marker(reads, roi, psm) ==
    IF roi # "multi"
    THEN LET txt   == reads[<<roi, psm>>]
             cand  == best_candidate_from_text(txt)
             txt2  == reads[<<roi, 10>>]
             cand2 == best_candidate_from_text(txt2)
         IN  IF truthy_str(cand)
             THEN [has_marker |-> TRUE, marker |-> cand, txt |-> txt]
             ELSE IF truthy_str(cand2)
             THEN [has_marker |-> TRUE, marker |-> cand2, txt |-> txt2]
             ELSE [has_marker |-> FALSE, marker |-> None, txt |-> txt]
    ELSE LET best == scan_rois(reads, 1, None)
         IN  IF best # None
             THEN [has_marker |-> TRUE, marker |-> Some(best[1].marker),
                   txt |-> provenance(best[1].roi, best[1].psm, best[1].txt)]
             ELSE [has_marker |-> FALSE, marker |-> None, txt |-> <<>>]

----------------------------------------------------------------------------
\* SpecRoomMarker: detect_room_marker on bounded OCR read-outs.

\* Most (region, psm) reads of a page that return any text.
MaxReads == 2

\* Configured ocr.room_marker.roi values explored ("center" is the default).
RoomRois == {"multi", "center"}

\* Configured ocr.room_marker.psm values explored (8 is the default).
RoomPsms == {8, 10}

\* Non-empty OCR read-outs: a clean single letter, a clean doubled letter, two
\* different letters, three letters, no letter at all, a lower-case letter
\* with noise, and six letters (more than the noise bonus counts).
ReadTexts ==
    { <<"B">>, <<"C", "C">>, <<"A", "B">>, <<"A", "B", "C">>, <<"7">>,
      <<"b", " ", "7", "\n">>, <<"A", "A", "A", "A", "A", "A">> }

\* The (region, psm) pairs detect_room_marker reads for a configured roi.
CellsOf(roi) ==
    IF roi = "multi"
    THEN { <<roi_list[i], psm_list[j]>> : i \in 1..Len(roi_list), j \in 1..Len(psm_list) }
    ELSE { <<roi, p>> : p \in RoomPsms \cup {10} }

\* Sets of at most MaxReads (region, psm) pairs: the reads that return text.
ReadSets(cells) == { X \in SUBSET cells : Cardinality(X) <= MaxReads }

\* The read-out function that is g on the pairs of S and empty elsewhere.
reads_of(cells, S, g) == [c \in cells |-> IF c \in S THEN g[c] ELSE <<>>]

InitRoomMarker ==
    /\ min_run = 2
    /\ keep_unmarked = FALSE
    /\ rows = <<>>
    /\ segments = <<>>
    /\ seg_id = 0
    /\ cur = None
    /\ prev_loc = None
    /\ prev_shoot = None
    /\ kept = <<>>
    /\ pc = "room_marker"
    /\ mk_in = None
    /\ mk_out = None
    /\ sl_in = <<>> /\ sl_out = <<>>
    /\ \E roi \in RoomRois, psm \in RoomPsms :
         \E S \in ReadSets(CellsOf(roi)) :
            \E g \in [S -> ReadTexts] :
               rm_in = [roi |-> roi, psm |-> psm,
                        reads |-> reads_of(CellsOf(roi), S, g)]
    /\ rm_out = None
    /\ db = <<>> /\ ingested = <<>>
    /\ tables = <<>> /\ ran = {}
    /\ graph = <<>> /\ run = <<>>

DetectRoomMarker ==
    /\ pc = "room_marker"
    /\ rm_out = None
    /\ rm_out' = Some(detect_room_marker(rm_in.reads, rm_in.roi, rm_in.psm))
    /\ UNCHANGED <<segVars, pc, mk_in, mk_out, sl_in, sl_out, rm_in, db, ingested,
                   tables, ran, graph, run>>

NextRoomMarker == DetectRoomMarker

SpecRoomMarker == InitRoomMarker /\ [][NextRoomMarker]_vars

----------------------------------------------------------------------------
\* Ingestion (src/ingest_dataset.py, main): one step per PDF of the loop. A
\* table is a bag of rows (only files declares a key). A PDF is its EFTA id
\* and its content; the content fixes the file's bytes, hash and page count,
\* the features of the rendered first page and what the OCR engine reads.

\* Largest EFTA id ingested.
MaxIds == 2

AllCells == CellsOf("multi") \cup CellsOf("center")

\* Page contents: a slate (no marker sheet on it), a page with the marker
\* "CC", a page with the words of the FBI slate form at the top on which the
\* OCR engine reads two different letters in the centre.
PageSlate ==
    [sha |-> "sha-slate", bytes |-> 200, pages |-> 1,
     features |-> [w |-> 8, h |-> 6, ph |-> "ph-slate", mean_luma |-> 120, blur |-> 40],
     slate_txt |-> <<"a", " ", "B">>,
     reads |-> reads_of(AllCells, {}, <<>>)]

PageCC ==
    [sha |-> "sha-cc", bytes |-> 300, pages |-> 2,
     features |-> [w |-> 6, h |-> 8, ph |-> "ph-cc", mean_luma |-> 90, blur |-> 70],
     slate_txt |-> <<"-">>,
     reads |-> reads_of(AllCells, {<<"center", 8>>, <<"left_band", 10>>},
                        [c \in {<<"center", 8>>, <<"left_band", 10>>} |-> <<"C", "C">>])]

PageAB ==
    [sha |-> "sha-ab", bytes |-> 400, pages |-> 1,
     features |-> [w |-> 8, h |-> 6, ph |-> "ph-ab", mean_luma |-> 60, blur |-> 90],
     slate_txt |-> <<"D", "A", "T", "E", " ", "C", "A", "S", "E", " ", "I", "D", " ", "L", "O", "C", "A", "T", "I", "O", "N">>,
     reads |-> reads_of(AllCells, {<<"center", 8>>, <<"full", 10>>},
                        [c \in {<<"center", 8>>, <<"full", 10>>} |-> <<"A", "B">>])]

Contents == {PageSlate, PageCC, PageAB}

\* The configurations explored: ocr.enabled and ocr.room_marker.roi vary, the
\* slate keywords and the seed ranges are fixed.
IngestConfigs ==
    { [ocr_enabled |-> FALSE, room_roi |-> "center"],
      [ocr_enabled |-> TRUE,  room_roi |-> "center"],
      [ocr_enabled |-> TRUE,  room_roi |-> "multi"] }

\* tools/ingest_dataset.py takes no configuration: OCR always, the marker read
\* in the centre region.
ToolsConfig ==
    [script |-> "tools/ingest_dataset.py", ocr_enabled |-> TRUE, room_roi |-> "center"]

slate_keywords == <<KwAB, KwLower>>

slate_min_keywords == 2

slate_strong == <<KwAB>>

\* ocr.room_marker.psm (default).
room_psm == 8

\* seed_assignments: one location with one shoot covering EFTA id 1 only,
\* confidence left to its default.
seed_assignments ==
    << [location |-> Some("L1"),
        shoots |-> << [efta_start |-> 1, efta_end |-> 1, shoot_index |-> Some(1)] >>] >>

\* seed_from_config: the first shoot, in list order, whose range holds the id.
\* Confidences are in hundredths (0.9 is 90, 0.50 is 50).
seed_from_config(efta_id, seeds) ==
    LET hits == { x \in UNION { {<<i, j>> : j \in 1..Len(seeds[i].shoots)} :
                                i \in 1..Len(seeds) } :
                     /\ seeds[x[1]].shoots[x[2]].efta_start <= efta_id
                     /\ efta_id <= seeds[x[1]].shoots[x[2]].efta_end }
    IN  IF hits = {}
        THEN [loc |-> None, shoot |-> None, method |-> "range_seed", conf |-> 50]
        ELSE LET h  == CHOOSE x \in hits :
                          \A y \in hits : x[1] < y[1] \/ (x[1] = y[1] /\ x[2] <= y[2])
                 sh == seeds[h[1]].shoots[h[2]]
             IN  [loc |-> seeds[h[1]].location,
                  shoot |-> sh.shoot_index,
                  method |-> "range_seed",
                  conf |-> IF "confidence" \in DOMAIN sh THEN sh.confidence ELSE 90]

\* ",".join(keywords)
RECURSIVE join_comma(_)
join_comma(ks) ==
    IF ks = <<>> THEN <<>>
    ELSE IF Len(ks) = 1 THEN ks[1]
    ELSE ks[1] \o <<",">> \o join_comma(Tail(ks))

\* str(pdf) and str(jpg_path) of a file.
pdf_path(file_id) == <<"in/">> \o file_id \o <<".pdf">>

jpg_path(file_id) == <<"images/">> \o file_id \o <<".jpg">>

\* Mutant: the rows of the file are not deleted before the insert.
delete_where_m13(table, file_id) == table

\* DELETE FROM table WHERE file_id = ?
delete_where(table, file_id) ==
    [r \in { x \in DOMAIN table : x.file_id # file_id } |-> table[r]]

\* INSERT INTO table VALUES (...)
insert(table, row) == table (+) SetToBag({row})

\* Upsert: delete + insert.
upsert(table, row) == insert(delete_where(table, row.file_id), row)

\* The values computed for one PDF before the writes.
page_values(efta_id, content, cfg) ==
    LET sl == IF cfg.ocr_enabled
              THEN detect_slate(content.slate_txt, slate_keywords,
                                slate_min_keywords, slate_strong)
              ELSE [is_slate |-> FALSE, txt |-> <<>>, found |-> <<>>]
        rm == IF cfg.ocr_enabled
              THEN detect_room_marker(content.reads, cfg.room_roi, room_psm)
              ELSE [has_marker |-> FALSE, marker |-> None, txt |-> <<>>]
    IN  [file_id |-> file_id_of(efta_id), slate |-> sl, marker |-> rm,
         seed |-> seed_from_config(efta_id, seed_assignments)]

files_row(efta_id, content, v) ==
    [file_id |-> v.file_id, path |-> pdf_path(v.file_id), efta_id |-> efta_id,
     bytes |-> content.bytes, sha256 |-> content.sha, pages |-> content.pages]

images_row(content, v) ==
    [file_id |-> v.file_id, jpg_path |-> jpg_path(v.file_id),
     width |-> content.features.w, height |-> content.features.h,
     phash |-> content.features.ph, mean_luma |-> content.features.mean_luma,
     blur_score |-> content.features.blur]

assignments_row(v) ==
    [file_id |-> v.file_id, location_label |-> v.seed.loc,
     shoot_index |-> v.seed.shoot, method |-> v.seed.method,
     confidence |-> v.seed.conf]

slates_row(v) ==
    [file_id |-> v.file_id, is_slate |-> v.slate.is_slate,
     keywords_found |-> join_comma(v.slate.found), ocr_text |-> v.slate.txt]

room_markers_row(v) ==
    [file_id |-> v.file_id, has_marker |-> v.marker.has_marker,
     marker_text |-> v.marker.marker, ocr_text |-> v.marker.txt]

\* The body of the loop over the PDFs, applied to the tables d.
ingest_pdf(d, efta_id, content, cfg) ==
    LET v == page_values(efta_id, content, cfg)
    IN  [files        |-> upsert(d.files, files_row(efta_id, content, v)),
         images       |-> upsert(d.images, images_row(content, v)),
         assignments  |-> upsert(d.assignments, assignments_row(v)),
         slates       |-> upsert(d.slates, slates_row(v)),
         room_markers |-> upsert(d.room_markers, room_markers_row(v))]

----------------------------------------------------------------------------
\* tools/ingest_dataset.py: the earlier ingestion script, writing the same five
\* tables with fixed keywords, pattern and seed ranges.

\* SLATE_KEYWORDS = ["DATE", "CASE ID", "PHOTOGRAPHER", "LOCATION", "FBI"]
SLATE_KEYWORDS ==
    << <<"D", "A", "T", "E">>,
       <<"C", "A", "S", "E", " ", "I", "D">>,
       <<"P", "H", "O", "T", "O", "G", "R", "A", "P", "H", "E", "R">>,
       <<"L", "O", "C", "A", "T", "I", "O", "N">>,
       <<"F", "B", "I">> >>

\* detect_slate of the tools script: raw substring tests on the upper-cased
\* text; strong = all of DATE, CASE ID, LOCATION;
\* is_slate = (len(found) >= 3) or strong.
tools_detect_slate(txt) ==
    LET up       == upper(txt)
        in_up(k) == contains(k, up)
        found    == SelectSeq(SLATE_KEYWORDS, in_up)
        strong   == \A i \in {1, 2, 4} : in_up(SLATE_KEYWORDS[i])
    IN  [is_slate |-> (Len(found) >= 3) \/ strong,
         txt      |-> txt,
         found    |-> found]

\* detect_room_marker of the tools script: one read, centre region, psm 8,
\* pattern ROOM_RE = ^[A-Z]{1,2}$; the text is returned as read.
tools_detect_room_marker(reads) ==
    LET txt    == reads[<<"center", 8>>]
        clean  == clean_letters(txt)
        tokens == SelectSeq(findall_letters(upper(txt)), room_re_match)
        cand   == IF room_re_match(clean) THEN clean
                  ELSE IF tokens # <<>> THEN tokens[1] ELSE <<>>
    IN  IF room_re_match(cand)
        THEN [has_marker |-> TRUE, marker |-> Some(cand), txt |-> txt]
        ELSE [has_marker |-> FALSE, marker |-> None, txt |-> txt]

\* seed_location_shoot: NY shoot 1 for 1-836, NY shoot 2 for 837-1499, LSJ
\* from 1500 on. Confidences in hundredths.
seed_location_shoot(efta_id) ==
    IF 1 <= efta_id /\ efta_id <= 836
    THEN [loc |-> Some("NY_9E71st"), shoot |-> Some(1), method |-> "range_seed", conf |-> 95]
    ELSE IF 837 <= efta_id /\ efta_id <= 1499
    THEN [loc |-> Some("NY_9E71st"), shoot |-> Some(2), method |-> "range_seed", conf |-> 95]
    ELSE IF efta_id >= 1500
    THEN [loc |-> Some("LSJ"), shoot |-> None, method |-> "range_seed", conf |-> 80]
    ELSE [loc |-> None, shoot |-> None, method |-> "range_seed", conf |-> 50]

\* The values the tools script computes for one PDF before the writes.
tools_page_values(efta_id, content) ==
    [file_id |-> file_id_of(efta_id),
     slate   |-> tools_detect_slate(content.slate_txt),
     marker  |-> tools_detect_room_marker(content.reads),
     seed    |-> seed_location_shoot(efta_id)]

\* The body of the loop of the tools script, applied to the tables d.
tools_ingest_pdf(d, efta_id, content) ==
    LET v == tools_page_values(efta_id, content)
    IN  [files        |-> upsert(d.files, files_row(efta_id, content, v)),
         images       |-> upsert(d.images, images_row(content, v)),
         assignments  |-> upsert(d.assignments, assignments_row(v)),
         slates       |-> upsert(d.slates, slates_row(v)),
         room_markers |-> upsert(d.room_markers, room_markers_row(v))]

----------------------------------------------------------------------------
\* SpecIngest: files ingested one at a time, by either script, into the same
\* database.

\* init_db on a new database: the five tables, empty.
init_db ==
    [files |-> EmptyBag, images |-> EmptyBag, assignments |-> EmptyBag,
     slates |-> EmptyBag, room_markers |-> EmptyBag]

InitIngest ==
    /\ min_run = 2
    /\ keep_unmarked = FALSE
    /\ rows = <<>>
    /\ segments = <<>>
    /\ seg_id = 0
    /\ cur = None
    /\ prev_loc = None
    /\ prev_shoot = None
    /\ kept = <<>>
    /\ pc = "ingest"
    /\ mk_in = None
    /\ mk_out = None
    /\ sl_in = <<>> /\ sl_out = <<>>
    /\ rm_in = <<>> /\ rm_out = <<>>
    /\ db = init_db
    /\ ingested = [i \in 1..MaxIds |-> None]
    /\ tables = <<>> /\ ran = {}
    /\ graph = <<>> /\ run = <<>>

\* One PDF of an ingestion run. ingested records, per EFTA id, the content and
\* configuration of its last ingestion and whether it was ingested before.
IngestPdf ==
    /\ pc = "ingest"
    /\ \E efta_id \in 1..MaxIds, content \in Contents, cfg \in IngestConfigs :
         /\ db' = ingest_pdf(db, efta_id, content, cfg)
         /\ ingested' = [ingested EXCEPT ![efta_id] =
                            Some([content |-> content, cfg |-> cfg,
                                  again |-> ingested[efta_id] # None])]
    /\ UNCHANGED <<segVars, pc, mk_in, mk_out, sl_in, sl_out, rm_in, rm_out,
                   tables, ran, graph, run>>

\* One PDF of a run of tools/ingest_dataset.py on the same database.
ToolsIngestPdf ==
    /\ pc = "ingest"
    /\ \E efta_id \in 1..MaxIds, content \in Contents :
         /\ db' = tools_ingest_pdf(db, efta_id, content)
         /\ ingested' = [ingested EXCEPT ![efta_id] =
                            Some([content |-> content, cfg |-> ToolsConfig,
                                  again |-> ingested[efta_id] # None])]
    /\ UNCHANGED <<segVars, pc, mk_in, mk_out, sl_in, sl_out, rm_in, rm_out,
                   tables, ran, graph, run>>

NextIngest == IngestPdf \/ ToolsIngestPdf

SpecIngest == InitIngest /\ [][NextIngest]_vars

----------------------------------------------------------------------------
\* scripts/room_segments.py (the first segmentation script): no hard resets,
\* no slates, the location and shoot of the first page as they are.

\* marker = marker if has_marker else None
\* new_marker = marker if is_valid_marker(marker) else None
v1_new_marker(r) ==
    LET marker == IF Truthy(r.has_marker) THEN r.marker_text ELSE None
    IN  IF is_valid_marker(marker) THEN marker ELSE None

\* seg_id += 1; cur = {...}
v1_start(a, r, new_marker) ==
    [a EXCEPT !.seg_id = a.seg_id + 1,
              !.cur = Some([segment_id     |-> a.seg_id + 1,
                            location_label |-> r.location_label,
                            shoot_index    |-> r.shoot_index,
                            marker_text    |-> new_marker,
                            start_efta_id  |-> r.efta_id,
                            start_file_id  |-> r.file_id,
                            end_efta_id    |-> r.efta_id,
                            end_file_id    |-> r.file_id,
                            n_files        |-> 1,
                            confidence     |-> 0])]

v1_extend(a, r) ==
    [a EXCEPT !.cur = Some([a.cur[1] EXCEPT !.end_efta_id = r.efta_id,
                                            !.end_file_id = r.file_id,
                                            !.n_files = @ + 1])]

\* The body of the loop over the rows.
v1_loop_body(a, r) ==
    LET new_marker == v1_new_marker(r) IN
    IF new_marker # None
    THEN IF a.cur = None
         THEN v1_start(a, r, new_marker[1])
         ELSE IF new_marker[1] # a.cur[1].marker_text
         THEN v1_start([a EXCEPT !.segments = Append(a.segments, a.cur[1])],
                       r, new_marker[1])
         ELSE v1_extend(a, r)
    ELSE IF a.cur # None THEN v1_extend(a, r) ELSE a

\* The loop of the first script over a whole list of rows (seg_id is never
\* negative, as in run_rows).
RECURSIVE v1_run_rows(_, _)
v1_run_rows(a, rs) ==
    IF rs = <<>> \/ a.seg_id < 0 THEN a
    ELSE v1_run_rows(v1_loop_body(a, Head(rs)), Tail(rs))

\* The confidence heuristic of the first script, in hundredths.
v1_confidence(n) == IF n >= 8 THEN 90 ELSE IF n >= 3 THEN 80 ELSE 60

\* Mutant: a segment of exactly min_run files is dropped.
v1_keeps_m30(s, minrun) == s.n_files > minrun

\* if s["n_files"] >= args.min_run
v1_keeps(s, minrun) == s.n_files >= minrun

\* if cur is not None: segments.append(cur); the min_run filter; the confidence.
v1_kept(rs, minrun) ==
    LET a    == v1_run_rows([cur |-> None, segments |-> <<>>, seg_id |-> 0], rs)
        segs == IF a.cur # None THEN Append(a.segments, a.cur[1]) ELSE a.segments
        keep(s) == v1_keeps(s, minrun)
        kp   == SelectSeq(segs, keep)
    IN  [i \in 1..Len(kp) |-> [kp[i] EXCEPT !.confidence = v1_confidence(kp[i].n_files)]]

\* The segments room_segments_v2.py keeps for a whole row list.
v2_kept(rs, minrun, keep) ==
    post_pass(close_cur(run_rows(EmptyAcc, rs, keep), "eof").segments, minrun, keep)

----------------------------------------------------------------------------
\* SpecRebuild: whole runs of the two segmentation scripts against input
\* tables that do not change. An output table is None (it does not exist) or
\* Some(bag of rows).

\* Longest row list of the ordered query.
MaxStream == 2

\* Most runs of one script.
MaxRuns == 2

\* for s in kept: INSERT INTO out_table VALUES (...)
RECURSIVE insert_rows(_, _)
insert_rows(table, rs) ==
    IF rs = <<>> THEN table
    ELSE insert_rows(insert(table, Head(rs)), Tail(rs))

\* Mutant: the table is created only if it does not exist, its rows are kept.
v2_drop_create_m14(table) == IF table = None THEN EmptyBag ELSE table[1]

\* DROP TABLE IF EXISTS out_table; CREATE TABLE out_table (...)
v2_drop_create(table) == EmptyBag

\* CREATE TABLE IF NOT EXISTS out_table (...); later DELETE FROM out_table
v1_create_delete(table) == EmptyBag

\* The joined columns of one page: an assignment, the slate flag and a marker
\* observation (slate rows with no marker row, as in ProcessRow).
RowChoices ==
    { x \in Assignments \X BOOLEAN \X MarkerObs : x[2] => x[3] = <<None, None>> }

\* The row lists of the ordered query, up to n rows.
RECURSIVE Streams(_)
Streams(n) ==
    IF n = 0 THEN { <<>> }
    ELSE LET shorter == Streams(n - 1)
         IN  shorter \cup
             { Append(rs, Row(efta_id_at(Len(rs) + 1), x[1], x[2], x[3])) :
                 rs \in { y \in shorter : Len(y) = n - 1 }, x \in RowChoices }

\* The input of an earlier run, before the input tables took their present
\* content: two pages with the marker "B".
PrevRows == UniformRows(2, <<Some(TRUE), Some(<<"B">>)>>)

\* The output tables before the runs: none exists yet, or both hold what an
\* earlier run (min_run 1) wrote for PrevRows.
InitialTables ==
    { [v1 |-> None, v2 |-> None],
      [v1 |-> Some(insert_rows(v1_create_delete(None), v1_kept(PrevRows, 1))),
       v2 |-> Some(insert_rows(v2_drop_create(None), v2_kept(PrevRows, 1, FALSE)))] }

InitRebuild ==
    /\ min_run \in MinRuns
    /\ keep_unmarked \in BOOLEAN
    /\ rows \in Streams(MaxStream)
    /\ segments = <<>>
    /\ seg_id = 0
    /\ cur = None
    /\ prev_loc = None
    /\ prev_shoot = None
    /\ kept = <<>>
    /\ pc = "rebuild"
    /\ mk_in = None
    /\ mk_out = None
    /\ sl_in = <<>> /\ sl_out = <<>>
    /\ rm_in = <<>> /\ rm_out = <<>>
    /\ db = <<>> /\ ingested = <<>>
    /\ tables \in InitialTables
    /\ ran = [v1 |-> 0, v2 |-> 0]
    /\ graph = <<>> /\ run = <<>>

\* One run of room_segments_v2.py (--min_run, --keep_unmarked as given).
RunV2 ==
    /\ pc = "rebuild"
    /\ ran.v2 < MaxRuns
    /\ kept' = v2_kept(rows, min_run, keep_unmarked)
    /\ tables' = [tables EXCEPT !.v2 = Some(insert_rows(v2_drop_create(tables.v2), kept'))]
    /\ ran' = [ran EXCEPT !.v2 = @ + 1]
    /\ UNCHANGED <<min_run, keep_unmarked, rows, segments, seg_id, cur, prev_loc,
                   prev_shoot, pc, mk_in, mk_out, sl_in, sl_out, rm_in, rm_out,
                   db, ingested, graph, run>>

\* One run of room_segments.py (--min_run as given).
RunV1 ==
    /\ pc = "rebuild"
    /\ ran.v1 < MaxRuns
    /\ kept' = v1_kept(rows, min_run)
    /\ tables' = [tables EXCEPT !.v1 = Some(insert_rows(v1_create_delete(tables.v1), kept'))]
    /\ ran' = [ran EXCEPT !.v1 = @ + 1]
    /\ UNCHANGED <<min_run, keep_unmarked, rows, segments, seg_id, cur, prev_loc,
                   prev_shoot, pc, mk_in, mk_out, sl_in, sl_out, rm_in, rm_out,
                   db, ingested, graph, run>>

NextRebuild == RunV2 \/ RunV1

SpecRebuild == InitRebuild /\ [][NextRebuild]_vars

----------------------------------------------------------------------------
\* scripts/room_graph_ransac.py. A descriptor is a DescBits-bit integer (ORB
\* descriptors are bit strings compared by Hamming distance); the descriptors
\* of an image are None or a non-empty sequence. The keypoints only reach the
\* homography fit, whose outcome is an input: None when findHomography returns
\* no mask, or Some(k) when the mask leaves out k of the matched points.

\* Width of a descriptor.
DescBits == 4

\* Most pages of a graph build.
MaxImages == 3

\* if len(good) < 12: return 0
min_good == 12

bit(a, k) == (a \div (2 ^ k)) % 2

\* cv2.NORM_HAMMING
hamming(a, b) == Cardinality({ k \in 0..(DescBits - 1) : bit(a, k) # bit(b, k) })

\* The least element of a non-empty set of numbers.
min_of(S) == CHOOSE x \in S : \A y \in S : x <= y

\* The two smallest distances of ds, a set of <<train index, distance>>, in
\* ascending order; one distance only when ds has one element.
two_nearest(ds) ==
    LET d1   == min_of({ x[2] : x \in ds })
        tied == { x \in ds : x[2] = d1 }
        far  == { x[2] : x \in ds \ tied }
    IN  IF Cardinality(ds) = 1 THEN <<d1>>
        ELSE IF Cardinality(tied) >= 2 THEN <<d1, d1>>
        ELSE <<d1, min_of(far)>>

\* The distances of the k = 2 nearest train descriptors of the query q, in
\* ascending order: one distance only when the train image has one descriptor.
knn_row(q, des2) ==
    two_nearest({ <<t, hamming(q, des2[t])>> : t \in 1..Len(des2) })

\* bf.knnMatch(des1, des2, k=2): one row per query descriptor.
knnMatch(des1, des2) == [q \in 1..Len(des1) |-> knn_row(des1[q], des2)]

\* if m.distance < 0.75 * n.distance
ratio_test(m, n) == 4 * m < 3 * n

\* good: the query indexes whose row passes the ratio test.
good_matches(knn) ==
    LET passes(q) == ratio_test(knn[q][1], knn[q][2])
    IN  SelectSeq([q \in 1..Len(knn) |-> q], passes)

\* for m, n in knn: unpacking a row that is not a pair raises ValueError.
unpack_raises(knn) == \E q \in 1..Len(knn) : Len(knn[q]) # 2

\* int(mask.sum()) for a fit over n matched points that leaves out `lost`.
mask_sum(n, lost) == max0(n - lost)

\* The steps of ransac_inliers after knnMatch.
score_matches(knn, fit) ==
    IF unpack_raises(knn) THEN [raises |-> TRUE, inliers |-> 0, fitted |-> FALSE]
    ELSE LET n == Len(good_matches(knn))
         IN  IF n < min_good THEN [raises |-> FALSE, inliers |-> 0, fitted |-> FALSE]
             ELSE IF fit = None THEN [raises |-> FALSE, inliers |-> 0, fitted |-> TRUE]
             ELSE [raises |-> FALSE, inliers |-> mask_sum(n, fit[1]), fitted |-> TRUE]

\* ransac_inliers(kp1, des1, kp2, des2): whether it raises, the value it
\* returns, and whether findHomography was called.
ransac_inliers(des1, des2, fit) ==
    IF des1 = None \/ des2 = None
    THEN [raises |-> FALSE, inliers |-> 0, fitted |-> FALSE]
    ELSE score_matches(knnMatch(des1[1], des2[1]), fit)

\* if inl >= inlier_threshold
meets(inl, inlier_threshold) == inl >= inlier_threshold

\* if limit_pairs and pairs > limit_pairs (None and 0 are falsy)
over_budget(limit_pairs, pairs) ==
    limit_pairs # None /\ limit_pairs[1] # 0 /\ pairs > limit_pairs[1]

\* The index pair after (i, j) in the two nested range loops over n names, as
\* <<i, j>>, or None when the loops are over.
next_pair(i, j, n) ==
    IF j < n THEN Some(<<i, j + 1>>)
    ELSE IF i + 1 < n THEN Some(<<i + 1, i + 2>>)
    ELSE None

first_pair(n) == IF n >= 2 THEN Some(<<1, 2>>) ELSE None

\* n descriptors equal to 0.
Zeros(n) == [k \in 1..n |-> 0]

\* The descriptors of the images explored: no keypoint; one descriptor; two
\* descriptors far apart; repeated descriptors just under, at and over the
\* minimum of good matches.
ImageCatalogue ==
    { None, Some(<<0>>), Some(<<0, 2 ^ DescBits - 1>>),
      Some(Zeros(min_good - 1)), Some(Zeros(min_good)), Some(Zeros(min_good + 1)) }

\* Outcomes of cv2.findHomography.
FitOutcomes == {None, Some(0), Some(1), Some(min_good)}

\* Values of inlier_threshold and limit_pairs explored.
Thresholds == {1, min_good + 1}

PairLimits == {None, Some(0), Some(1), Some(2)}

RECURSIVE FeatsUpTo(_)
FeatsUpTo(n) ==
    IF n = 0 THEN { <<>> }
    ELSE LET shorter == FeatsUpTo(n - 1)
         IN  shorter \cup { Append(f, im) : f \in { g \in shorter : Len(g) = n - 1 },
                                             im \in ImageCatalogue }

InitGraph ==
    /\ min_run = 2
    /\ keep_unmarked = FALSE
    /\ rows = <<>>
    /\ segments = <<>>
    /\ seg_id = 0
    /\ cur = None
    /\ prev_loc = None
    /\ prev_shoot = None
    /\ kept = <<>>
    /\ pc = "graph"
    /\ mk_in = None
    /\ mk_out = None
    /\ sl_in = <<>> /\ sl_out = <<>>
    /\ rm_in = <<>> /\ rm_out = <<>>
    /\ db = <<>> /\ ingested = <<>>
    /\ tables = <<>> /\ ran = {}
    /\ run = <<>>
    /\ \E feats \in FeatsUpTo(MaxImages), t \in Thresholds, l \in PairLimits :
          graph = [feats |-> feats, inlier_threshold |-> t, limit_pairs |-> l,
                   nodes |-> {}, edges |-> {}, pairs |-> 0, at |-> None,
                   calls |-> <<>>, status |-> "start"]

\* G = nx.Graph(); for n in names: G.add_node(n); pairs = 0
AddNodes ==
    /\ pc = "graph"
    /\ graph.status = "start"
    /\ graph' = [graph EXCEPT !.nodes = 1..Len(graph.feats),
                              !.at = first_pair(Len(graph.feats)),
                              !.status = "loop"]
    /\ UNCHANGED <<segVars, pc, mk_in, mk_out, sl_in, sl_out, rm_in, rm_out,
                   db, ingested, tables, ran, run>>

\* One iteration of the inner loop: the budget test, the score, the edge.
ScorePair ==
    /\ pc = "graph"
    /\ graph.status = "loop"
    /\ graph.at # None
    /\ LET a     == graph.at[1][1]
           b     == graph.at[1][2]
           pairs == graph.pairs + 1
           des1  == graph.feats[a]
           des2  == graph.feats[b]
       IN  IF over_budget(graph.limit_pairs, pairs)
           THEN graph' = [graph EXCEPT !.pairs = pairs, !.status = "returned"]
           ELSE \E fit \in FitOutcomes :
                \E r \in {ransac_inliers(des1, des2, fit)} :
                  /\ ~r.fitted => fit = None
                  /\ LET call == [a |-> a, b |-> b, fit |-> fit, result |-> r]
                     IN  IF r.raises
                         THEN graph' = [graph EXCEPT !.pairs = pairs,
                                                     !.calls = Append(@, call),
                                                     !.status = "ValueError"]
                         ELSE graph' = [graph EXCEPT
                                          !.pairs = pairs,
                                          !.calls = Append(@, call),
                                          !.edges = IF meets(r.inliers, graph.inlier_threshold)
                                                    THEN @ \cup {[a |-> a, b |-> b,
                                                                  weight |-> r.inliers]}
                                                    ELSE @,
                                          !.at = next_pair(a, b, Len(graph.feats))]
    /\ UNCHANGED <<segVars, pc, mk_in, mk_out, sl_in, sl_out, rm_in, rm_out,
                   db, ingested, tables, ran, run>>

\* Both loops are over: return G.
ReturnGraph ==
    /\ pc = "graph"
    /\ graph.status = "loop"
    /\ graph.at = None
    /\ graph' = [graph EXCEPT !.status = "returned"]
    /\ UNCHANGED <<segVars, pc, mk_in, mk_out, sl_in, sl_out, rm_in, rm_out,
                   db, ingested, tables, ran, run>>

NextGraph == AddNodes \/ ScorePair \/ ReturnGraph

SpecGraph == InitGraph /\ [][NextGraph]_vars

----------------------------------------------------------------------------
\* SpecRun: one run of ingest_dataset.py main over a directory of PDF files:
\* the listing, the --start_efta / --end_efta filter, --limit, and the loop.
\* A file name is the tuple of its characters.

\* Most files in the input directory.
MaxNames == 3

\* The names a directory can hold: EFTA00000001.pdf, EFTA00000002.pdf,
\* efta00000003.pdf, x_EFTA00000005.pdf, and two names without the pattern,
\* EFTA0000004.pdf (seven digits) and notes.pdf.
NameCatalogue ==
    { <<"E", "F", "T", "A", "0", "0", "0", "0", "0", "0", "0", "1", ".", "p", "d", "f">>,
      <<"E", "F", "T", "A", "0", "0", "0", "0", "0", "0", "0", "2", ".", "p", "d", "f">>,
      <<"e", "f", "t", "a", "0", "0", "0", "0", "0", "0", "0", "3", ".", "p", "d", "f">>,
      <<"x", "_", "E", "F", "T", "A", "0", "0", "0", "0", "0", "0", "0", "5", ".", "p", "d", "f">>,
      <<"E", "F", "T", "A", "0", "0", "0", "0", "0", "0", "4", ".", "p", "d", "f">>,
      <<"n", "o", "t", "e", "s", ".", "p", "d", "f">> }

\* ord(c) of the characters of the catalogue.
ord(c) ==
    CASE c = "." -> 46
      [] c = "0" -> 48 [] c = "1" -> 49 [] c = "2" -> 50 [] c = "3" -> 51
      [] c = "4" -> 52 [] c = "5" -> 53 [] c = "6" -> 54 [] c = "7" -> 55
      [] c = "8" -> 56 [] c = "9" -> 57
      [] c = "A" -> 65 [] c = "E" -> 69 [] c = "F" -> 70 [] c = "T" -> 84
      [] c = "_" -> 95
      [] c = "a" -> 97 [] c = "d" -> 100 [] c = "e" -> 101 [] c = "f" -> 102
      [] c = "n" -> 110 [] c = "o" -> 111 [] c = "p" -> 112 [] c = "s" -> 115
      [] c = "t" -> 116 [] c = "x" -> 120

\* a < b for two str (code point order, a proper prefix first).
str_less(a, b) ==
    \E k \in 1..Len(b) :
        /\ k <= Len(a) + 1
        /\ \A i \in 1..(k - 1) : a[i] = b[i]
        /\ k <= Len(a) => ord(a[k]) < ord(b[k])

\* sorted(in_dir.glob("*.pdf")): the paths of one directory in name order.
RECURSIVE sorted_names(_)
sorted_names(S) ==
    IF S = {} THEN <<>>
    ELSE LET least == CHOOSE a \in S : \A b \in S \ {a} : str_less(a, b)
         IN  <<least>> \o sorted_names(S \ {least})

\* \d of the naming pattern, and int() of one digit.
is_digit(c) == c \in {"0", "1", "2", "3", "4", "5", "6", "7", "8", "9"}

digit_value(c) == ord(c) - ord("0")

\* int(m.group(1)) of a string of digits.
RECURSIVE int_of(_)
int_of(ds) ==
    IF ds = <<>> THEN 0
    ELSE 10 * int_of(SubSeq(ds, 1, Len(ds) - 1)) + digit_value(ds[Len(ds)])

\* The literal EFTA of the pattern under re.IGNORECASE.
is_efta(s) ==
    /\ s[1] \in {"E", "e"} /\ s[2] \in {"F", "f"}
    /\ s[3] \in {"T", "t"} /\ s[4] \in {"A", "a"}

\* Number of digits of the pattern's group: (\d{8}).
efta_digits == 8

\* efta_re.search(name) for the default naming.efta_regex EFTA(\d{8}) compiled
\* with re.IGNORECASE: None, or Some(int(m.group(1))) of the leftmost match.
efta_search(name) ==
    LET width == 4 + efta_digits
        hits  == { i \in 1..(Len(name) - width + 1) :
                     /\ is_efta(SubSeq(name, i, i + 3))
                     /\ \A j \in (i + 4)..(i + width - 1) : is_digit(name[j]) }
    IN  IF hits = {} THEN None
        ELSE LET i == CHOOSE h \in hits : \A g \in hits : h <= g
             IN  Some(int_of(SubSeq(name, i + 4, i + width - 1)))

\* start <= eid <= end for the path's id, if its name has one. end is None
\* where the code uses 10**12, which no id of eight digits exceeds.
in_range(name, start, end) ==
    LET m == efta_search(name)
    IN  m # None /\ start <= m[1] /\ (end = None \/ m[1] <= end[1])

\* The range filter: start defaults to -1 and end to 10**12; a name without a
\* match is passed over (continue).
range_filter(pdfs, start_efta, end_efta) ==
    LET start == IF start_efta # None THEN start_efta[1] ELSE -1
        ok(p) == in_range(p, start, end_efta)
    IN  SelectSeq(pdfs, ok)

\* pdfs[: max(0, int(args.limit))]
apply_limit(pdfs, limit) ==
    LET n == IF limit > 0 THEN limit ELSE 0
    IN  SubSeq(pdfs, 1, IF n < Len(pdfs) THEN n ELSE Len(pdfs))

\* The option values explored (None: the option is not given).
StartOptions == {None, Some(2)}

EndOptions == {None, Some(3)}

LimitOptions == {None, Some(0), Some(1), Some(2)}

\* Content and configuration of every file of the run.
RunContent == PageCC

RunConfig == [ocr_enabled |-> TRUE, room_roi |-> "center"]

InitRun ==
    /\ min_run = 2
    /\ keep_unmarked = FALSE
    /\ rows = <<>>
    /\ segments = <<>>
    /\ seg_id = 0
    /\ cur = None
    /\ prev_loc = None
    /\ prev_shoot = None
    /\ kept = <<>>
    /\ pc = "run"
    /\ mk_in = None
    /\ mk_out = None
    /\ sl_in = <<>> /\ sl_out = <<>>
    /\ rm_in = <<>> /\ rm_out = <<>>
    /\ db = <<>> /\ ingested = <<>>
    /\ tables = <<>> /\ ran = {}
    /\ graph = <<>>
    /\ \E dir \in SUBSET NameCatalogue, s \in StartOptions, e \in EndOptions,
          l \in LimitOptions :
          /\ Cardinality(dir) <= MaxNames
          /\ run = [dir |-> dir, start_efta |-> s, end_efta |-> e, limit |-> l,
                    pdfs |-> <<>>, next |-> 1, status |-> "start"]

\* Collect PDFs, the range filter, the limit, connect and init_db.
CollectPdfs ==
    /\ pc = "run"
    /\ run.status = "start"
    /\ LET found    == sorted_names(run.dir)
           ranged   == run.start_efta # None \/ run.end_efta # None
           filtered == IF ranged
                       THEN range_filter(found, run.start_efta, run.end_efta)
                       ELSE found
           limited  == IF run.limit # None THEN apply_limit(filtered, run.limit[1])
                       ELSE filtered
       IN  IF found = <<>> \/ filtered = <<>>
           THEN /\ run' = [run EXCEPT !.status = "SystemExit"]
                /\ db' = db
           ELSE /\ run' = [run EXCEPT !.pdfs = limited, !.status = "loop"]
                /\ db' = init_db
    /\ UNCHANGED <<segVars, pc, mk_in, mk_out, sl_in, sl_out, rm_in, rm_out,
                   ingested, tables, ran, graph>>

\* One iteration of the loop over pdfs: parse_efta_id raises ValueError for a
\* name without a match, otherwise the rows of the file are written.
IngestNext ==
    /\ pc = "run"
    /\ run.status = "loop"
    /\ run.next <= Len(run.pdfs)
    /\ LET pdf == run.pdfs[run.next]
           m   == efta_search(pdf)
       IN  IF m = None
           THEN /\ run' = [run EXCEPT !.status = "ValueError"]
                /\ db' = db
           ELSE LET efta_id == m[1]
                    d == ingest_pdf(db, efta_id, RunContent, RunConfig)
                    v == page_values(efta_id, RunContent, RunConfig)
                    f == [files_row(efta_id, RunContent, v) EXCEPT !.path = <<"in/">> \o pdf]
                IN  /\ run' = [run EXCEPT !.next = @ + 1]
                    /\ db' = [d EXCEPT !.files = upsert(db.files, f)]
    /\ UNCHANGED <<segVars, pc, mk_in, mk_out, sl_in, sl_out, rm_in, rm_out,
                   ingested, tables, ran, graph>>

\* The loop is over: the summary is printed and main returns.
Summary ==
    /\ pc = "run"
    /\ run.status = "loop"
    /\ run.next > Len(run.pdfs)
    /\ run' = [run EXCEPT !.status = "done"]
    /\ UNCHANGED <<segVars, pc, mk_in, mk_out, sl_in, sl_out, rm_in, rm_out,
                   db, ingested, tables, ran, graph>>

NextRun == CollectPdfs \/ IngestNext \/ Summary

SpecRun == InitRun /\ [][NextRun]_vars

----------------------------------------------------------------------------
\* SpecCandidate: best_candidate_from_text on one OCR read-out, for each
\* validity pattern.

\* Characters of the read-outs: letters, a lower-case letter, a digit, a blank.
CandidateChars == {"A", "B", "b", "7", " "}

InitCandidate ==
    /\ min_run = 2
    /\ keep_unmarked = FALSE
    /\ rows = <<>>
    /\ segments = <<>>
    /\ seg_id = 0
    /\ cur = None
    /\ prev_loc = None
    /\ prev_shoot = None
    /\ kept = <<>>
    /\ pc = "candidate"
    /\ mk_in = None
    /\ mk_out = None
    /\ sl_in = <<>> /\ sl_out = <<>>
    /\ \E re \in RoomPatterns, txt \in StringsOver(CandidateChars, MaxText) :
          rm_in = [room_re |-> re, txt |-> txt]
    /\ rm_out = None
    /\ db = <<>> /\ ingested = <<>>
    /\ tables = <<>> /\ ran = {}
    /\ graph = <<>> /\ run = <<>>

BestCandidate ==
    /\ pc = "candidate"
    /\ rm_out = None
    /\ rm_out' = Some(best_candidate_in(rm_in.room_re, rm_in.txt))
    /\ UNCHANGED <<segVars, pc, mk_in, mk_out, sl_in, sl_out, rm_in, db, ingested,
                   tables, ran, graph, run>>

NextCandidate == BestCandidate

SpecCandidate == InitCandidate /\ [][NextCandidate]_vars

----------------------------------------------------------------------------
\* SpecEquiv: one run of each segmentation script on the same input tables,
\* for streams of one location and shoot without slates, keep_unmarked off.

\* Most blocks of equal marker observations in a stream.
MaxBlocks == 2

\* Block lengths: one page, and the first lengths of the confidence tiers
\* (3, 8, and MaxFiles - 1 = 20 in the second script).
BlockLens == {1, 3, 8, MaxFiles - 1}

\* n more rows with the marker observation mo after the rows rs.
more_rows(rs, asg, mo, n) ==
    rs \o [k \in 1..n |-> Row(efta_id_at(Len(rs) + k), asg, FALSE, mo)]

\* The streams of at most n blocks and at most MaxFiles + 1 pages, every page
\* with the assignment asg.
RECURSIVE BlockStreams(_, _)
BlockStreams(asg, n) ==
    IF n = 0 THEN { <<>> }
    ELSE LET shorter == BlockStreams(asg, n - 1)
             longer  == { more_rows(rs, asg, mo, len) :
                            rs \in shorter, mo \in MarkerObs, len \in BlockLens }
         IN  shorter \cup { rs \in longer : Len(rs) <= MaxFiles + 1 }

\* No assignment row at all, or a seeded location and shoot.
EquivAssignments == { <<None, None>>, <<Some("L1"), Some(1)>> }

InitEquiv ==
    /\ min_run \in MinRuns
    /\ keep_unmarked = FALSE
    /\ \E asg \in EquivAssignments : rows \in BlockStreams(asg, MaxBlocks)
    /\ segments = <<>>
    /\ seg_id = 0
    /\ cur = None
    /\ prev_loc = None
    /\ prev_shoot = None
    /\ kept = <<>>
    /\ pc = "rebuild"
    /\ mk_in = None
    /\ mk_out = None
    /\ sl_in = <<>> /\ sl_out = <<>>
    /\ rm_in = <<>> /\ rm_out = <<>>
    /\ db = <<>> /\ ingested = <<>>
    /\ tables = [v1 |-> None, v2 |-> None]
    /\ ran = [v1 |-> 0, v2 |-> 0]
    /\ graph = <<>> /\ run = <<>>

\* The first run of each script.
FirstRunV1 == ran.v1 = 0 /\ RunV1

FirstRunV2 == ran.v2 = 0 /\ RunV2

NextEquiv == FirstRunV1 \/ FirstRunV2

SpecEquiv == InitEquiv /\ [][NextEquiv]_vars

----------------------------------------------------------------------------
\* Vocabulary of the properties.

\* The single/double-letter pattern, on a str.
ValidMarkerText(s) ==
    \/ Len(s) = 1 /\ s[1] \in AlphaChars
    \/ Len(s) = 2 /\ s[1] = s[2] /\ s[1] \in AlphaChars

\* The row carries a valid marker.
RowHasValidMarker(r) ==
    /\ r.has_marker = Some(TRUE)
    /\ r.marker_text # None
    /\ ValidMarkerText(r.marker_text[1])

\* The row's location, a missing one read as "UNKNOWN".
LocOf(r) == IF r.location_label = None THEN "UNKNOWN" ELSE r.location_label[1]

SameContext(r1, r2) == LocOf(r1) = LocOf(r2) /\ r1.shoot_index = r2.shoot_index

InRange(r, s) == s.start_efta_id <= r.efta_id /\ r.efta_id <= s.end_efta_id

\* The closed segments followed by the open one.
AllSegments == segments \o cur

\* A step of the loop: one more row has been consumed.
RowStep == pc = "loop" /\ pc' = "loop" /\ Len(rows') = Len(rows) + 1

NewRow == rows'[Len(rows')]

LastRow == rows[Len(rows)]

\* The step closes a segment with the given reason.
ClosesWith(reason) ==
    /\ Len(segments') = Len(segments) + 1
    /\ segments'[Len(segments')].reset_reason = reason

----------------------------------------------------------------------------
\* C1: is_valid_marker accepts m exactly when m is a string of one alphabetic
\* character or of two identical alphabetic characters; None, the empty
\* string, two different letters, longer strings, digits and punctuation are
\* rejected.
C1_ValidMarkerIff ==
    mk_out # None =>
        (mk_out[1] <=> (mk_in # None /\ ValidMarkerText(mk_in[1])))

C1_Witness == mk_out = Some(TRUE) /\ mk_in = Some(<<"c", "c">>)

\* C2: every segment emitted by the v2 state machine has a marker_text that
\* is the placeholder "UNMARKED" or satisfies the single/double-letter pattern.
C2_EmittedMarkerValid ==
    \A i \in 1..Len(kept) :
        kept[i].marker_text = UNMARKED \/ ValidMarkerText(kept[i].marker_text)

C2_Witness ==
    /\ pc = "done"
    /\ \E i \in 1..Len(kept) : kept[i].marker_text = <<"C", "C">>
    /\ \E k \in 1..Len(rows) : rows[k].marker_text = Some(<<"A", "B">>)

\* C3: emitted segments do not overlap: the ID ranges of two distinct emitted
\* segments are disjoint, and the one with the smaller segment_id ends
\* strictly before the other starts.
C3_NoOverlap ==
    \A i, j \in 1..Len(kept) :
        i # j =>
            /\ \/ kept[i].end_efta_id < kept[j].start_efta_id
               \/ kept[j].end_efta_id < kept[i].start_efta_id
            /\ kept[i].segment_id < kept[j].segment_id
                   => kept[i].end_efta_id < kept[j].start_efta_id

C3_Witness ==
    /\ pc = "done"
    /\ Len(kept) = 2
    /\ kept[1].n_files = 2
    /\ kept[1].reset_reason = "marker_change"
    /\ kept[2].start_efta_id > kept[1].end_efta_id

\* C4: every page whose ID lies in an emitted segment's range has the
\* segment's location (a missing one read as "UNKNOWN") and shoot index.
C4_SegmentOneContext ==
    \A i \in 1..Len(kept) : \A k \in 1..Len(rows) :
        InRange(rows[k], kept[i]) =>
            /\ LocOf(rows[k]) = kept[i].location_label
            /\ rows[k].shoot_index = kept[i].shoot_index

C4_Witness ==
    /\ pc = "done"
    /\ \E i \in 1..Len(kept) :
          /\ kept[i].n_files >= 2
          /\ kept[i].location_label = "UNKNOWN"
          /\ kept[i].reset_reason = "location_change"

\* C5: no emitted segment's range contains the ID of a slate page, and a
\* segment open when a slate page with unchanged location and shoot arrives
\* is closed with reason "slate", ending at the page before the slate.
C5_SlateStep ==
    (RowStep /\ cur # None /\ NewRow.is_slate /\ SameContext(NewRow, LastRow)) =>
        /\ cur' = None
        /\ segments' = Append(segments, [cur[1] EXCEPT !.reset_reason = "slate"])
        /\ segments'[Len(segments')].end_efta_id = LastRow.efta_id

C5_SlateInNoSegment ==
    \A k \in 1..Len(rows) :
        rows[k].is_slate =>
            /\ \A i \in 1..Len(kept) : ~InRange(rows[k], kept[i])
            /\ \A i \in 1..Len(AllSegments) : ~InRange(rows[k], AllSegments[i])

C5_SlateClosesAndIsExcluded == []C5_SlateInNoSegment /\ [][C5_SlateStep]_vars

C5_Witness ==
    /\ pc = "done"
    /\ Len(rows) = 3
    /\ rows[3].is_slate
    /\ Len(kept) = 1
    /\ kept[1].reset_reason = "slate"
    /\ kept[1].end_efta_id = rows[2].efta_id

\* C6: two adjacent non-slate pages with the same location and shoot that
\* carry the same valid marker lie in one segment.
C6_SameMarkerSameSegment ==
    \A k \in 1..(Len(rows) - 1) :
        ( /\ ~rows[k].is_slate /\ ~rows[k + 1].is_slate
          /\ SameContext(rows[k], rows[k + 1])
          /\ RowHasValidMarker(rows[k]) /\ RowHasValidMarker(rows[k + 1])
          /\ rows[k].marker_text = rows[k + 1].marker_text )
        => \E i \in 1..Len(AllSegments) :
              /\ InRange(rows[k], AllSegments[i])
              /\ InRange(rows[k + 1], AllSegments[i])

C6_Witness ==
    /\ pc = "loop"
    /\ Len(rows) = 3
    /\ \A k \in 1..3 : rows[k].marker_text = Some(<<"C", "C">>) /\ rows[k].has_marker = Some(TRUE)
    /\ SameContext(rows[1], rows[2]) /\ SameContext(rows[2], rows[3])
    /\ cur # None /\ cur[1].n_files = 3

\* C7: a segment is closed with reason "marker_change" only when the current
\* page carries a valid marker different from the open segment's marker; in
\* that step the open segment ends at the previous page and a new segment
\* with the new marker starts at the current page with n_files = 1.
C7_MarkerChangeStep ==
    ClosesWith("marker_change") =>
        /\ RowStep
        /\ cur # None
        /\ RowHasValidMarker(NewRow)
        /\ NewRow.marker_text[1] # cur[1].marker_text
        /\ segments' = Append(segments, [cur[1] EXCEPT !.reset_reason = "marker_change"])
        /\ segments'[Len(segments')].end_efta_id = LastRow.efta_id
        /\ cur' # None
        /\ cur'[1].marker_text = NewRow.marker_text[1]
        /\ cur'[1].start_efta_id = NewRow.efta_id
        /\ cur'[1].end_efta_id = NewRow.efta_id
        /\ cur'[1].n_files = 1
        /\ cur'[1].segment_id = cur[1].segment_id + 1

C7_MarkerChange == [][C7_MarkerChangeStep]_vars

C7_Witness ==
    /\ pc = "loop"
    /\ Len(segments) = 1
    /\ segments[1].reset_reason = "marker_change"
    /\ segments[1].n_files = 2
    /\ cur # None /\ cur[1].marker_text = <<"B">>

\* C8: a segment is closed with reason "location_change" only when the
\* current page's location differs from the previous page's, and with
\* "shoot_change" only when its shoot index differs from the previous page's;
\* after such a close the current page is still evaluated in the new context:
\* a slate leaves no segment open, a valid marker opens a segment at the
\* page, an unmarked page opens the placeholder segment if keep_unmarked.
C8_EvaluatedInNewContext ==
    IF NewRow.is_slate THEN cur' = None
    ELSE IF RowHasValidMarker(NewRow) \/ keep_unmarked
    THEN /\ cur' # None
         /\ cur'[1].marker_text =
               (IF RowHasValidMarker(NewRow) THEN NewRow.marker_text[1] ELSE UNMARKED)
         /\ cur'[1].location_label = LocOf(NewRow)
         /\ cur'[1].shoot_index = NewRow.shoot_index
         /\ cur'[1].start_efta_id = NewRow.efta_id
         /\ cur'[1].n_files = 1
    ELSE cur' = None

C8_HardResetStep ==
    /\ ClosesWith("location_change") =>
          /\ RowStep /\ cur # None
          /\ LocOf(NewRow) # LocOf(LastRow)
          /\ segments' = Append(segments, [cur[1] EXCEPT !.reset_reason = "location_change"])
          /\ C8_EvaluatedInNewContext
    /\ ClosesWith("shoot_change") =>
          /\ RowStep /\ cur # None
          /\ NewRow.shoot_index # LastRow.shoot_index
          /\ segments' = Append(segments, [cur[1] EXCEPT !.reset_reason = "shoot_change"])
          /\ C8_EvaluatedInNewContext

C8_HardReset == [][C8_HardResetStep]_vars

C8_Witness ==
    /\ pc = "loop"
    /\ Len(rows) = 3
    /\ Len(segments) = 2
    /\ segments[1].reset_reason = "location_change"
    /\ segments[2].reset_reason = "shoot_change"
    /\ cur # None /\ cur[1].start_efta_id = rows[3].efta_id

\* C9: while a segment is open, a non-slate page with unchanged location and
\* shoot and no valid marker extends the open segment: n_files grows by one,
\* end_efta_id becomes the page's ID, marker_text, start_efta_id and
\* segment_id stay, and no segment is closed or started.
C9_ExtendStep ==
    ( /\ RowStep /\ cur # None
      /\ ~NewRow.is_slate
      /\ SameContext(NewRow, LastRow)
      /\ ~RowHasValidMarker(NewRow) )
    => /\ cur' # None
       /\ cur'[1].n_files = cur[1].n_files + 1
       /\ cur'[1].end_efta_id = NewRow.efta_id
       /\ cur'[1].marker_text = cur[1].marker_text
       /\ cur'[1].start_efta_id = cur[1].start_efta_id
       /\ cur'[1].segment_id = cur[1].segment_id
       /\ segments' = segments
       /\ seg_id' = seg_id

C9_UnmarkedExtends == [][C9_ExtendStep]_vars

C9_Witness ==
    /\ pc = "loop"
    /\ Len(rows) = 3
    /\ rows[2].marker_text = Some(<<"A", "B">>)
    /\ rows[3].has_marker = Some(FALSE)
    /\ cur # None
    /\ cur[1].marker_text = <<"B">>
    /\ cur[1].n_files = 3

\* C10: the segment open after the last page is closed with reason "eof" and
\* no other segment has that reason; a stream of k >= min_run non-slate pages
\* with one location, one shoot and one valid marker yields exactly one
\* segment, from the first ID to the last, with n_files = k and reason "eof".
C10_EofStep ==
    (pc = "loop" /\ pc' = "closed") =>
        /\ cur' = None
        /\ segments' = (IF cur = None THEN segments
                        ELSE Append(segments, [cur[1] EXCEPT !.reset_reason = "eof"]))

C10_OnlyLastIsEof ==
    \A i \in 1..Len(AllSegments) :
        AllSegments[i].reset_reason = "eof" =>
            pc # "loop" /\ i = Len(AllSegments) /\ cur = None

C10_UniformStream ==
    /\ Len(rows) >= min_run
    /\ \A k \in 1..Len(rows) :
          /\ ~rows[k].is_slate
          /\ RowHasValidMarker(rows[k])
          /\ SameContext(rows[k], rows[1])
          /\ rows[k].marker_text = rows[1].marker_text

C10_OneSegment ==
    (pc = "done" /\ C10_UniformStream) =>
        /\ Len(kept) = 1
        /\ kept[1].start_efta_id = rows[1].efta_id
        /\ kept[1].end_efta_id = rows[Len(rows)].efta_id
        /\ kept[1].n_files = Len(rows)
        /\ kept[1].reset_reason = "eof"

C10_Eof == [](C10_OnlyLastIsEof /\ C10_OneSegment) /\ [][C10_EofStep]_vars

C10_Witness ==
    /\ pc = "done"
    /\ C10_UniformStream
    /\ Len(rows) = 3
    /\ min_run = 2
    /\ kept[1].reset_reason = "eof"

\* C11: confidence_for is non-decreasing in the file count, with four tiers
\* (n < 3, 3 <= n < 8, 8 <= n < 20, n >= 20) of strictly increasing
\* confidence, and every emitted segment's confidence is confidence_for of
\* its final n_files. (Stated on consecutive counts n, n + 1, which gives
\* every pair by transitivity.)
C11_Tier(n) ==
    IF n < 3 THEN 1 ELSE IF n < 8 THEN 2 ELSE IF n < 20 THEN 3 ELSE 4

C11_ConfidenceTiers ==
    /\ \A a \in 0..MaxFiles :
          LET b == a + 1 IN
          /\ confidence_for(a) <= confidence_for(b)
          /\ C11_Tier(a) < C11_Tier(b) => confidence_for(a) < confidence_for(b)
          /\ C11_Tier(a) = C11_Tier(b) => confidence_for(a) = confidence_for(b)
    /\ \A i \in 1..Len(kept) :
          /\ kept[i].confidence = confidence_for(kept[i].n_files)
          /\ \E j \in 1..Len(segments) :
                /\ segments[j].segment_id = kept[i].segment_id
                /\ segments[j].n_files = kept[i].n_files

C11_Witness ==
    /\ pc = "done"
    /\ Len(kept) = 1
    /\ kept[1].n_files = 20
    /\ kept[1].confidence = 92

\* C12: the post-pass drops exactly the closed segments shorter than min_run
\* and the "UNMARKED" ones while keep_unmarked is off; the others are emitted
\* in the order in which they were closed.
C12_Emitted(s) ==
    /\ s.n_files >= min_run
    /\ s.marker_text = UNMARKED => keep_unmarked

C12_PostPassFilter ==
    pc = "done" =>
        /\ kept = SelectSeq(segments, C12_Emitted)
        /\ \A i \in 1..Len(kept) :
              /\ kept[i].n_files >= min_run
              /\ kept[i].marker_text = UNMARKED => keep_unmarked

C12_Witness ==
    /\ pc = "done"
    /\ min_run = 2
    /\ keep_unmarked
    /\ Len(segments) = 2
    /\ segments[1].marker_text = UNMARKED /\ segments[1].n_files = 2
    /\ segments[2].n_files = 1
    /\ kept = <<segments[1]>>

\* Upper-cased text with the characters outside A-Z0-9 removed.
Normalised(s) == SelectSeq(upper(s), LAMBDA c : c \in UpperLetters \cup Digits)

\* The keyword occurs in the raw upper-cased text, or its compacted form
\* occurs in the compacted text.
MatchesRawOrCompacted(k, txt) ==
    \/ contains(upper(k), upper(txt))
    \/ contains(Normalised(k), Normalised(txt))

\* As above, a keyword whose compacted form is empty matching raw only.
MatchesGuarded(k, txt) ==
    \/ contains(upper(k), upper(txt))
    \/ Normalised(k) # <<>> /\ contains(Normalised(k), Normalised(txt))

\* C15 (as claimed): is_slate is true exactly when the number of matched
\* keywords reaches min_keywords or every keyword of the strong list matches
\* (raw or compacted).
C15_AsClaimed ==
    sl_out # None =>
        (sl_out[1].is_slate <=>
            \/ Len(sl_out[1].found) >= sl_in.min_keywords
            \/ \A i \in 1..Len(sl_in.strong_keywords) :
                  MatchesRawOrCompacted(sl_in.strong_keywords[i], sl_in.txt))

\* C15 (amended): is_slate is true exactly when the number of matched
\* keywords reaches min_keywords, or the strong list is non-empty and every
\* keyword of it matches (raw, or compacted when its compacted form is
\* non-empty).
C15_SlateIff ==
    sl_out # None =>
        /\ sl_out[1].found =
              SelectSeq(sl_in.keywords, LAMBDA k : MatchesGuarded(k, sl_in.txt))
        /\ sl_out[1].is_slate <=>
              \/ Len(sl_out[1].found) >= sl_in.min_keywords
              \/ /\ sl_in.strong_keywords # <<>>
                 /\ \A i \in 1..Len(sl_in.strong_keywords) :
                       MatchesGuarded(sl_in.strong_keywords[i], sl_in.txt)

C15_Witness ==
    /\ sl_out # None
    /\ sl_in.strong_keywords = <<>>
    /\ sl_in.keywords = <<KwAB, KwLower>>
    /\ sl_in.min_keywords = 3
    /\ Len(sl_out[1].found) = 2
    /\ ~sl_out[1].is_slate

\* C16 (as claimed): if every strong keyword occurs in the OCR text up to
\* letter case and up to non-alphanumeric characters inserted or removed,
\* is_slate is true whatever min_keywords is.
C16_AsClaimed ==
    ( /\ sl_out # None
      /\ \A i \in 1..Len(sl_in.strong_keywords) :
            contains(Normalised(sl_in.strong_keywords[i]), Normalised(sl_in.txt)) )
    => sl_out[1].is_slate

\* C16 (amended): if the strong list is non-empty and every strong keyword,
\* upper-cased and stripped of the characters outside A-Z0-9, is non-empty and
\* occurs in the equally normalised OCR text, is_slate is true whatever
\* min_keywords is.
C16_StrongTolerant ==
    ( /\ sl_out # None
      /\ sl_in.strong_keywords # <<>>
      /\ \A i \in 1..Len(sl_in.strong_keywords) :
            /\ Normalised(sl_in.strong_keywords[i]) # <<>>
            /\ contains(Normalised(sl_in.strong_keywords[i]), Normalised(sl_in.txt)) )
    => sl_out[1].is_slate

C16_Witness ==
    /\ sl_out # None
    /\ sl_in.txt = <<"a", "-", "B">>
    /\ sl_in.strong_keywords = <<KwAB, KwLower>>
    /\ sl_in.keywords = <<>>
    /\ sl_in.min_keywords = 3
    /\ sl_out[1].is_slate

----------------------------------------------------------------------------
\* Multi-region marker detection (SpecRoomMarker).

\* The evaluation order of the (region, configuration) pairs: the regions in
\* their fixed order, single-character mode (psm 10) before single-word mode
\* (psm 8) within each.
EvaluationOrder ==
    << <<"left_band", 10>>,    <<"left_band", 8>>,
       <<"right_band", 10>>,   <<"right_band", 8>>,
       <<"top_band", 10>>,     <<"top_band", 8>>,
       <<"bottom_band", 10>>,  <<"bottom_band", 8>>,
       <<"center_small", 10>>, <<"center_small", 8>>,
       <<"full", 10>>,         <<"full", 8>> >>

MultiRun == rm_out # None /\ rm_in.roi = "multi"

\* The candidate read at the i-th pair, and its score.
CandidateAt(i) == best_candidate_from_text(rm_in.reads[EvaluationOrder[i]])

HasCandidate(i) == CandidateAt(i) # None

ScoreAt(i) ==
    marker_score(EvaluationOrder[i][2], CandidateAt(i)[1], rm_in.reads[EvaluationOrder[i]])

\* i is the first pair, in evaluation order, among those of highest score.
FirstOfHighest(i) ==
    /\ HasCandidate(i)
    /\ \A j \in 1..Len(EvaluationOrder) :
          HasCandidate(j) => /\ ScoreAt(j) <= ScoreAt(i)
                             /\ (j < i => ScoreAt(j) < ScoreAt(i))

\* C17: in multi-region detection the result is the candidate of highest score
\* over the fixed evaluation order, the first evaluated among those of equal
\* highest score (its marker, and its region, configuration and text in the
\* returned OCR text); with no valid candidate at all the page is reported
\* with has_marker false and no marker text.
C17_HighestFirstWins ==
    MultiRun =>
        IF \E i \in 1..Len(EvaluationOrder) : HasCandidate(i)
        THEN \E i \in 1..Len(EvaluationOrder) :
                /\ FirstOfHighest(i)
                /\ rm_out[1].has_marker = TRUE
                /\ rm_out[1].marker = CandidateAt(i)
                /\ rm_out[1].txt =
                      <<"[roi=", EvaluationOrder[i][1], " psm=",
                        IF EvaluationOrder[i][2] = 10 THEN "10" ELSE "8", "] ">>
                      \o rm_in.reads[EvaluationOrder[i]]
        ELSE rm_out[1].has_marker = FALSE /\ rm_out[1].marker = None

\* Two candidates of equal highest score ("B" and "AB", both 15): the one of
\* the earlier region is returned.
C17_Witness ==
    /\ MultiRun
    /\ rm_in.reads[<<"left_band", 10>>] = <<"B">>
    /\ rm_in.reads[<<"right_band", 10>>] = <<"A", "B">>
    /\ rm_out[1].marker = Some(<<"B">>)
    /\ rm_out[1].txt = <<"[roi=", "left_band", " psm=", "10", "] ", "B">>

\* A cleanly read doubled letter: the cleaned text is the candidate, two
\* identical letters.
CleanDoubled(txt) ==
    /\ best_candidate_from_text(txt) = Some(clean_letters(txt))
    /\ Len(clean_letters(txt)) = 2
    /\ clean_letters(txt)[1] = clean_letters(txt)[2]

\* A cleanly read single letter.
CleanSingle(txt) ==
    /\ best_candidate_from_text(txt) = Some(clean_letters(txt))
    /\ Len(clean_letters(txt)) = 1

\* C18: under the same OCR configuration a cleanly read doubled letter scores
\* strictly higher than a cleanly read single letter, and when these two are
\* the only candidates of the page the doubled letter is the marker returned,
\* whichever of the two regions is evaluated first.
C18_DoubledPreferred ==
    MultiRun =>
        \A i, j \in 1..Len(EvaluationOrder) :
            ( /\ EvaluationOrder[i][2] = EvaluationOrder[j][2]
              /\ CleanDoubled(rm_in.reads[EvaluationOrder[i]])
              /\ CleanSingle(rm_in.reads[EvaluationOrder[j]]) )
            => /\ ScoreAt(i) > ScoreAt(j)
               /\ (\A k \in 1..Len(EvaluationOrder) : HasCandidate(k) => k \in {i, j})
                     => rm_out[1].marker = CandidateAt(i)

\* The returned OCR text names a region and a configuration.
HasProvenance(txt) ==
    /\ Len(txt) >= 5
    /\ txt[1] = "[roi="
    /\ txt[2] \in {roi_list[i] : i \in 1..Len(roi_list)} \cup RoomRois
    /\ txt[3] = " psm="
    /\ txt[4] \in {"10", "8"}
    /\ txt[5] = "] "

\* C20: whenever detect_room_marker reports a marker, the OCR text it returns
\* carries the provenance (region and OCR configuration) of the winning
\* candidate, for every configured roi.
C20_ProvenanceAlways ==
    (rm_out # None /\ rm_out[1].has_marker) => HasProvenance(rm_out[1].txt)

----------------------------------------------------------------------------
\* Ingestion (SpecIngest).

\* The pages ingested so far, by EFTA id.
IngestedIds == { i \in 1..MaxIds : ingested[i] # None }

\* The values computed at the last ingestion of page i, by the script that
\* ingested it.
LastValues(i) ==
    IF ingested[i][1].cfg = ToolsConfig
    THEN tools_page_values(i, ingested[i][1].content)
    ELSE page_values(i, ingested[i][1].content, ingested[i][1].cfg)

\* Each table holds one row per ingested page, that of its last ingestion,
\* and nothing else.
C13_Tables ==
    pc = "ingest" =>
        /\ db.files = SetToBag({ files_row(i, ingested[i][1].content, LastValues(i))
                                 : i \in IngestedIds })
        /\ db.images = SetToBag({ images_row(ingested[i][1].content, LastValues(i))
                                  : i \in IngestedIds })
        /\ db.assignments = SetToBag({ assignments_row(LastValues(i)) : i \in IngestedIds })
        /\ db.slates = SetToBag({ slates_row(LastValues(i)) : i \in IngestedIds })
        /\ db.room_markers = SetToBag({ room_markers_row(LastValues(i)) : i \in IngestedIds })
        /\ \A t \in 1..5 :
              LET table == <<db.files, db.images, db.assignments, db.slates,
                             db.room_markers>>[t]
              IN  /\ BagCardinality(table) = Cardinality(IngestedIds)
                  /\ \A i \in IngestedIds :
                        Cardinality({ r \in BagToSet(table) : r.file_id = file_id_of(i) }) = 1

\* A step that ingests page i again with the content and configuration of its
\* last ingestion leaves the five tables as they were.
C13_ReingestStep ==
    \A i \in 1..MaxIds :
        ( /\ pc = "ingest"
          /\ ingested[i] # None
          /\ ingested'[i] # None
          /\ ingested'[i][1].content = ingested[i][1].content
          /\ ingested'[i][1].cfg = ingested[i][1].cfg
          /\ \A k \in 1..MaxIds : k # i => ingested'[k] = ingested[k] )
        => db' = db

\* C13: ingestion is an idempotent per-page upsert: after any sequence of
\* ingestions each of files, images, assignments, slates and room_markers holds
\* exactly one row per ingested page, with the values of its most recent
\* ingestion, and ingesting a page again with identical inputs changes none of
\* the five tables.
C13_IdempotentUpsert == []C13_Tables /\ [][C13_ReingestStep]_vars

\* Page 1 was ingested more than once and last as the "CC" page by the
\* configured script, page 2 was ingested last by the tools script: two rows
\* in room_markers, page 1's carrying "CC", and page 2's assignment carrying
\* the seed of the tools script.
C13_Witness ==
    /\ pc = "ingest"
    /\ ingested[1] # None /\ ingested[1][1].again
    /\ ingested[1][1].content = PageCC
    /\ ingested[1][1].cfg \in IngestConfigs /\ ingested[1][1].cfg.ocr_enabled
    /\ ingested[2] # None /\ ingested[2][1].again
    /\ ingested[2][1].cfg = ToolsConfig
    /\ BagCardinality(db.room_markers) = 2
    /\ BagCardinality(db.assignments) = 2
    /\ \E r \in BagToSet(db.room_markers) :
          r.file_id = file_id_of(1) /\ r.marker_text = Some(<<"C", "C">>)
    /\ \E r \in BagToSet(db.assignments) :
          r.file_id = file_id_of(2) /\ r.location_label = Some("NY_9E71st")

\* C19: every room_markers row written by ingestion with has_marker true
\* carries a marker_text that is one letter or two identical letters, and
\* has_marker is true exactly when marker_text is non-null.
C19_CanonicalMarkers ==
    pc = "ingest" =>
        \A r \in BagToSet(db.room_markers) :
            /\ r.has_marker = TRUE =>
                  r.marker_text # None /\ ValidMarkerText(r.marker_text[1])
            /\ r.has_marker = TRUE <=> r.marker_text # None

----------------------------------------------------------------------------
\* Rebuild of the segment tables (SpecRebuild).

\* The segments kept by the last run, as table rows.
KeptRows == SetToBag({ kept[i] : i \in 1..Len(kept) })

\* The step is a run of the script that writes the table named t.
RunOf(t) == pc = "rebuild" /\ ran'[t] = ran[t] + 1

\* After a run its table holds the segments the run kept, one row each, and
\* nothing else; a run after the first leaves the table as it was.
C14_RunStep ==
    \A t \in {"v1", "v2"} :
        RunOf(t) =>
            /\ tables'[t] # None
            /\ tables'[t][1] = KeptRows'
            /\ BagCardinality(tables'[t][1]) = Len(kept')
            /\ ran[t] >= 1 => tables'[t] = tables[t]

\* C14: the segment table is rebuilt in full on every segmentation run: after
\* a run it contains exactly the segments kept by that run, nothing left over
\* from earlier runs, so a second run on unchanged input tables leaves the
\* same table contents as the first.
C14_FullRebuild == [][C14_RunStep]_vars

\* Both scripts have run twice on a stream that yields one "CC" segment; each
\* table holds that one row, whatever it held before.
C14_Witness ==
    /\ pc = "rebuild"
    /\ ran.v1 = 2 /\ ran.v2 = 2
    /\ Len(rows) = 2
    /\ BagCardinality(tables.v1[1]) = 1
    /\ BagCardinality(tables.v2[1]) = 1
    /\ \E r \in BagToSet(tables.v2[1]) :
          r.marker_text = <<"C", "C">> /\ r.n_files = 2 /\ r.reset_reason = "eof"
    /\ \E r \in BagToSet(tables.v1[1]) : r.marker_text = <<"C", "C">> /\ r.n_files = 2

----------------------------------------------------------------------------
\* Pages met while no segment is open (Spec).

\* C27: when no segment is open, a non-slate page without a valid marker joins
\* no segment and opens none if keep_unmarked is off; if keep_unmarked is on it
\* opens a new segment with marker_text "UNMARKED", n_files 1 and start and
\* end equal to the page's ID.
C27_NoOpenSegmentStep ==
    ( /\ RowStep /\ cur = None
      /\ ~NewRow.is_slate
      /\ ~RowHasValidMarker(NewRow) )
    => /\ segments' = segments
       /\ IF keep_unmarked
          THEN /\ cur' # None
               /\ cur'[1].marker_text = UNMARKED
               /\ cur'[1].n_files = 1
               /\ cur'[1].start_efta_id = NewRow.efta_id
               /\ cur'[1].end_efta_id = NewRow.efta_id
               /\ cur'[1].segment_id = seg_id + 1
          ELSE /\ cur' = None
               /\ seg_id' = seg_id
               /\ \A i \in 1..Len(segments') : ~InRange(NewRow, segments'[i])

C27_UnmarkedWithoutSegment == [][C27_NoOpenSegmentStep]_vars

\* keep_unmarked off: a marked page, a slate that closes its segment, then an
\* unmarked page, which is in no segment.
C27_Witness ==
    /\ pc = "loop" /\ ~keep_unmarked
    /\ Len(rows) = 3
    /\ RowHasValidMarker(rows[1])
    /\ rows[2].is_slate
    /\ ~rows[3].is_slate /\ ~RowHasValidMarker(rows[3])
    /\ cur = None
    /\ Len(segments) = 1 /\ segments[1].end_efta_id = rows[1].efta_id

----------------------------------------------------------------------------
\* Closed segments (Spec).

\* The pages of the stream whose ID lies in the range of s.
PagesIn(s) == { i \in 1..Len(rows) : InRange(rows[i], s) }

C29_ClosedSegmentsCount ==
    pc \in {"loop", "closed", "done"} =>
        \A k \in 1..Len(segments) :
            /\ segments[k].n_files = Cardinality(PagesIn(segments[k]))
            /\ \A i \in PagesIn(segments[k]) : ~rows[i].is_slate
            /\ segments[k].start_efta_id <= segments[k].end_efta_id
            /\ segments[k].n_files >= 1

\* What a closed segment keeps.
Frozen(s) ==
    <<s.segment_id, s.start_efta_id, s.end_efta_id, s.n_files, s.marker_text,
      s.reset_reason>>

C29_ClosedSegmentsStay ==
    pc \in {"loop", "closed"} =>
        /\ Len(segments') >= Len(segments)
        /\ \A k \in 1..Len(segments) : Frozen(segments'[k]) = Frozen(segments[k])

\* C29: in every state of the walk over the stream every closed segment has
\* n_files equal to the number of stream pages with an ID in its range, all of
\* them non-slate, start <= end and n_files >= 1; and no later step changes a
\* closed segment's start, end, n_files, marker_text or reset_reason.
C29_ClosedSegments == []C29_ClosedSegmentsCount /\ [][C29_ClosedSegmentsStay]_vars

\* A segment of two pages closed by a marker change, with a later page
\* processed after it was closed.
C29_Witness ==
    /\ pc = "loop"
    /\ Len(rows) = 3
    /\ Len(segments) = 1
    /\ segments[1].n_files = 2
    /\ segments[1].reset_reason = "marker_change"
    /\ segments[1].start_efta_id = rows[1].efta_id
    /\ segments[1].end_efta_id = rows[2].efta_id
    /\ cur # None /\ cur[1].start_efta_id = rows[3].efta_id

----------------------------------------------------------------------------
\* The two segmentation scripts side by side (SpecEquiv).

\* No slate page, and every page has the location and shoot of the first.
UniformNoSlate ==
    \A i \in 1..Len(rows) :
        /\ ~rows[i].is_slate
        /\ rows[i].location_label = rows[1].location_label
        /\ rows[i].shoot_index = rows[1].shoot_index

\* The columns the two scripts agree on.
SameSegment(r1, r2) ==
    /\ r1.segment_id = r2.segment_id
    /\ r1.marker_text = r2.marker_text
    /\ r1.start_efta_id = r2.start_efta_id
    /\ r1.end_efta_id = r2.end_efta_id
    /\ r1.n_files = r2.n_files
    /\ r1.n_files < 20 => r1.confidence = r2.confidence

\* C30: on streams without slate pages whose pages all have the same
\* location and shoot, room_segments.py and room_segments_v2.py (keep_unmarked
\* off, same min_run) emit the same segments: equal segment_id, marker_text,
\* start_efta_id, end_efta_id and n_files, and equal confidence for every
\* segment of fewer than 20 files.
C30_ScriptsAgree ==
    ( /\ pc = "rebuild" /\ ran.v1 >= 1 /\ ran.v2 >= 1
      /\ ~keep_unmarked /\ UniformNoSlate )
    => /\ BagCardinality(tables.v1[1]) = BagCardinality(tables.v2[1])
       /\ \A r1 \in BagToSet(tables.v1[1]) :
             \E r2 \in BagToSet(tables.v2[1]) : SameSegment(r1, r2)
       /\ \A r2 \in BagToSet(tables.v2[1]) :
             \E r1 \in BagToSet(tables.v1[1]) : SameSegment(r1, r2)

\* Both scripts ran on a stream of two segments, one of a single file and one
\* of 20 files (on which the confidences differ: 0.90 and 0.92).
C30_Witness ==
    /\ pc = "rebuild" /\ ran.v1 = 1 /\ ran.v2 = 1
    /\ ~keep_unmarked /\ UniformNoSlate
    /\ BagCardinality(tables.v1[1]) = 2
    /\ \E r \in BagToSet(tables.v1[1]) : r.n_files = 1 /\ r.confidence = 60
    /\ \E r \in BagToSet(tables.v1[1]) : r.n_files = 20 /\ r.confidence = 90
    /\ \E r \in BagToSet(tables.v2[1]) : r.n_files = 20 /\ r.confidence = 92

----------------------------------------------------------------------------
\* The candidate of one read-out (SpecCandidate).

\* The (start, length) of the substrings of 1 or 2 letters of the upper-cased
\* text that satisfy the pattern.
ValidSubstrings(room_re, txt) ==
    LET u == upper(txt)
    IN  { p \in (1..Len(u)) \X {1, 2} :
            /\ p[1] + p[2] - 1 <= Len(u)
            /\ room_re_match_in(room_re, SubSeq(u, p[1], p[1] + p[2] - 1)) }

\* C26: best_candidate_from_text returns the letters-only cleaned text when
\* that text satisfies the pattern; otherwise the leftmost substring of 1 or 2
\* letters of the text that satisfies the pattern; and no candidate only when
\* the text has no such substring. Stated for the default pattern and for the
\* pattern of one letter or two identical letters.
C26_BestCandidate ==
    (pc = "candidate" /\ rm_out # None) =>
        LET re   == rm_in.room_re
            u    == upper(rm_in.txt)
            cand == clean_letters(rm_in.txt)
            subs == ValidSubstrings(re, rm_in.txt)
            out  == rm_out[1]
        IN  IF room_re_match_in(re, cand) THEN out = Some(cand)
            ELSE IF subs = {} THEN out = None
            ELSE /\ out # None
                 /\ \E p \in subs :
                       /\ \A q \in subs : p[1] <= q[1]
                       /\ out[1] = SubSeq(u, p[1], p[1] + p[2] - 1)

----------------------------------------------------------------------------
\* Files left out of an ingestion run (SpecRun).

\* The limit, if given, does not shorten the listing.
LimitKeepsAll ==
    run.limit = None \/ run.limit[1] >= Cardinality(run.dir)

\* C24: a file whose name does not encode the EFTA pattern is never silently
\* skipped, whatever the options (--start_efta / --end_efta included): a run
\* whose directory holds such a file never ends normally. (Stated for the runs
\* whose --limit does not shorten the listing.)
C24_NoSilentSkip ==
    (pc = "run" /\ run.status = "done" /\ LimitKeepsAll)
    => \A name \in run.dir : efta_search(name) # None

----------------------------------------------------------------------------
\* The similarity graph (SpecGraph).

\* build_graph is over: it returned the graph or an exception left it.
BuildEnded == pc = "graph" /\ graph.status \in {"returned", "ValueError"}

NoPairCap == graph.limit_pairs = None \/ graph.limit_pairs[1] = 0

\* The index pairs (i, j), i < j, of n pages, and their lexicographic order.
IndexPairs(n) == { p \in (1..n) \X (1..n) : p[1] < p[2] }

LexBefore(p, q) == p[1] < q[1] \/ (p[1] = q[1] /\ p[2] <= q[2])

\* The calls of the scorer on the pair p.
CallsOn(p) ==
    { k \in 1..Len(graph.calls) : graph.calls[k].a = p[1] /\ graph.calls[k].b = p[2] }

\* Number of query descriptors of des1 whose two nearest neighbours in des2
\* pass the ratio test (none when there is no second neighbour).
PassingMatches(des1, des2) ==
    Cardinality({ q \in 1..Len(des1) :
                    LET row == knn_row(des1[q], des2)
                    IN  Len(row) = 2 /\ ratio_test(row[1], row[2]) })

\* C25: no pair of images aborts the graph build: every call of the scorer
\* returns a non-negative integer, also when the second image has exactly one
\* descriptor or the fit fails, and build_graph goes on with the next pairs.
C25_NoAbort ==
    pc = "graph" =>
        /\ graph.status # "ValueError"
        /\ \A k \in 1..Len(graph.calls) :
              ~graph.calls[k].result.raises /\ graph.calls[k].result.inliers >= 0

\* C22: the scorer is symmetric: for a pair (A, B) it scored, the score of
\* (B, A), with the same outcome of the fit, is the same. (Stated for the pairs
\* on which neither call raises.)
C22_Symmetric ==
    pc = "graph" =>
        \A k \in 1..Len(graph.calls) : \A f \in FitOutcomes :
            LET c   == graph.calls[k]
                rev == ransac_inliers(graph.feats[c.b], graph.feats[c.a], f)
            IN  ( /\ c.result.fitted => f = c.fit
                  /\ ~c.result.raises /\ ~rev.raises )
                => rev.inliers = c.result.inliers

\* C21: a pair in which an image has no descriptors, or fewer than 12 matches
\* pass the ratio test, or the fit returns no mask, scores 0 and gets no edge
\* (the thresholds are >= 1); any other pair scores the number of inliers of
\* the fit.
C21_ScoreOfPair ==
    pc = "graph" =>
        \A k \in 1..Len(graph.calls) :
            LET c    == graph.calls[k]
                des1 == graph.feats[c.a]
                des2 == graph.feats[c.b]
                n    == IF des1 = None \/ des2 = None THEN 0
                        ELSE PassingMatches(des1[1], des2[1])
            IN  IF des1 = None \/ des2 = None \/ n < 12 \/ c.fit = None
                THEN /\ ~c.result.raises
                     /\ c.result.inliers = 0
                     /\ \A e \in graph.edges : ~(e.a = c.a /\ e.b = c.b)
                ELSE /\ ~c.result.raises
                     /\ c.result.inliers = mask_sum(n, c.fit[1])

\* C23: with no pair cap, when build_graph is over every page is a node, every
\* pair of distinct pages was scored exactly once, the edges are the pairs
\* whose score is >= the threshold, weighted by the score, and a page without
\* features has no edge.
C23_GraphOfScores ==
    (BuildEnded /\ NoPairCap) =>
        LET n == Len(graph.feats)
        IN  /\ graph.nodes = 1..n
            /\ \A p \in IndexPairs(n) : Cardinality(CallsOn(p)) = 1
            /\ Len(graph.calls) = Cardinality(IndexPairs(n))
            /\ graph.edges =
                  { [a |-> graph.calls[k].a, b |-> graph.calls[k].b,
                     weight |-> graph.calls[k].result.inliers] :
                    k \in { h \in 1..Len(graph.calls) :
                              /\ ~graph.calls[h].result.raises
                              /\ graph.calls[h].result.inliers >= graph.inlier_threshold } }
            /\ \A i \in 1..n : graph.feats[i] = None =>
                  \A e \in graph.edges : e.a # i /\ e.b # i

\* C28: with a pair budget L >= 1 over n pages, when build_graph is over the
\* scorer was called on exactly min(L, n(n-1)/2) pairs, the first ones in
\* lexicographic order of (i, j), i < j; no other pair has an edge, and the n
\* pages are nodes.
C28_PairBudget ==
    (BuildEnded /\ graph.limit_pairs # None /\ graph.limit_pairs[1] >= 1) =>
        LET n      == Len(graph.feats)
            L      == graph.limit_pairs[1]
            total  == (n * (n - 1)) \div 2
            scored == { <<graph.calls[k].a, graph.calls[k].b>> : k \in 1..Len(graph.calls) }
        IN  /\ Len(graph.calls) = (IF L < total THEN L ELSE total)
            /\ Cardinality(scored) = Len(graph.calls)
            /\ scored \subseteq IndexPairs(n)
            /\ \A p \in scored : \A q \in IndexPairs(n) : LexBefore(q, p) => q \in scored
            /\ \A e \in graph.edges : <<e.a, e.b>> \in scored
            /\ graph.nodes = 1..n

====
